---- MODULE Spec2Model ----
(***************************************************************************)
(* State-machine model of the room coordinator of party/server.ts: the     *)
(* delayed-activation statement queue, the vote ledger, the broadcast      *)
(* fan-out and the ghost-cursor simulator.                                 *)
(*                                                                         *)
(* Time is the value Date.now() returns, in milliseconds.  A handler runs  *)
(* to completion within one clock reading; the clock moves between         *)
(* handlers (action advanceClock).                                         *)
(*                                                                         *)
(* The actions are shared by several specifications, which differ in the   *)
(* inputs they offer: Spec (queue scheduler and connections), DeriveSpec   *)
(* (the queue functions on arbitrary queues), LedgerSpec (the HTTP surface *)
(* of the vote ledger), RoomSpec (every handler, on narrow inputs),        *)
(* SubmitSpec (the ledger beside a populated queue and a running           *)
(* simulator), SimSpec (the simulator on the tick clock), RetargetSpec     *)
(* (the simulator beside items that become active a few ticks apart),      *)
(* ApproachSpec and ApproachLiveSpec (the simulator left to its ticks,     *)
(* without and with fairness), PoolSpec (refreshes of the statements pool, *)
(* which the server variant of unnamed/part_002 adds) and MessageSpec      *)
(* (every kind of inbound message).                                        *)
(*                                                                         *)
(* The clients are modelled as far as they keep state that the server      *)
(* feeds: App (app/client.tsx) with its copy of the queue and the votes it *)
(* posts, and Canvas (app/components/Canvas.tsx) with the cursors it was   *)
(* told about.  What a handler sent is moved to the inboxes of the         *)
(* connections (action flush) and delivered from there in order.  CopySpec *)
(* has two Apps beside the queue, AppSpec one App with its renders,        *)
(* effects and interval timer, CanvasSpec a Canvas beside the simulator.   *)
(***************************************************************************)
EXTENDS Integers, Sequences, FiniteSets, TLC

(***************************************************************************)
(* Bounds of the model.                                                    *)
(***************************************************************************)
MaxTime == 20000
MaxQueue == 3
MaxVotes == 2

(***************************************************************************)
(* Program constants.                                                      *)
(***************************************************************************)
QueueDelay == 10000
DefaultStatementId == 1
EndVotingId == 0 - 1

(***************************************************************************)
(* Input domains.                                                          *)
(***************************************************************************)
Conns == {"c1", "c2"}
StatementIds == {EndVotingId, DefaultStatementId, 5}
ClockSteps == {5000, 10000}

VARIABLES
    now,                    \* Date.now()
    connections,            \* the connections the room fans out to
    activeStatementId,      \* Server.activeStatementId
    allSelectedStatements,  \* Server.allSelectedStatements
    votes,                  \* Server.votes
    ghostCursorsEnabled,    \* Server.ghostCursorsEnabled
    ghostCursors,           \* Server.ghostCursors
    ghostCursorInterval,    \* Server.ghostCursorInterval: a timer id, 0 for undefined
    timers,                 \* the interval timers armed in the runtime: [id, due]
    lastActiveStatementId,  \* Server.lastActiveStatementId
    sent,                   \* what the last handler sent: <<[to, msg], ...>>
    request,                \* the Request the last onRequest was given
    response,               \* the Response the last onRequest returned
    op,                     \* the last handler that ran, with its input
    statementsPool,         \* Server.statementsPool
    fetches,                \* the fetch calls awaited by updateStatementsPool: their URLs
    flushed,                \* the last handler's sends have been handed to the sockets
    inbox,                  \* per connection, the messages on their way to its client
    app,                    \* per connection, the App component behind it (app/client.tsx)
    canvas                  \* per connection, the Canvas component behind it

vars == <<now, connections, activeStatementId, allSelectedStatements, votes,
          ghostCursorsEnabled, ghostCursors, ghostCursorInterval, timers,
          lastActiveStatementId, sent, request, response, op,
          statementsPool, fetches, flushed, inbox, app, canvas>>

queueVars == <<activeStatementId, allSelectedStatements>>
poolVars == <<statementsPool, fetches>>
clientVars == <<inbox, app, canvas>>
simVars == <<ghostCursorsEnabled, ghostCursors, ghostCursorInterval, timers,
             lastActiveStatementId>>
serverVars == <<now, connections, queueVars, votes, simVars, sent, request,
                response, op, poolVars>>

(***************************************************************************)
(* Helpers.                                                                *)
(***************************************************************************)
QueueItem(statementId, displayTimestamp) ==
    [statementId |-> statementId, displayTimestamp |-> displayTimestamp]

\* the record kept of the last handler: which one ran, when, and whether the
\* handler before it was the same one
Op(type) == [type |-> type, at |-> now, repeat |-> op.type = type]

(***************************************************************************)
(* JSON values of a request body, by their JavaScript type.                *)
(***************************************************************************)
Num(n) == [t |-> "number", n |-> n, s |-> ""]
Str(s) == [t |-> "string", n |-> 0, s |-> s]
Undefined == [t |-> "undefined", n |-> 0, s |-> ""]

\* !!v
truthy(v) ==
    CASE v.t = "number" -> v.n # 0
      [] v.t = "string" -> v.s # ""
      [] OTHER -> FALSE

\* request.json(): "object" is a parsed object with the four fields read by the
\* handler; "primitive" a parsed number or string; "null" the JSON null;
\* "unparseable" a body on which request.json() rejects
Body(kind, userId, statementId, vote, timestamp) ==
    [kind |-> kind, userId |-> userId, statementId |-> statementId,
     vote |-> vote, timestamp |-> timestamp]

NoBody == Body("none", Undefined, Undefined, Undefined, Undefined)

Request(method, path, body) == [method |-> method, path |-> path, body |-> body]

NoRequest == Request("", <<>>, NoBody)

\* a Response: status, the keys of its JSON object body (none for a text or an
\* array body) and their values
Response(status, text, keys, voteCount, message, array) ==
    [status |-> status, text |-> text, keys |-> keys, voteCount |-> voteCount,
     message |-> message, array |-> array]

NoResponse == Response(0, "", {}, 0, "", <<>>)

\* room.broadcast(msg, without): one delivery to every connection not excluded
broadcast(msg, without) == [to |-> connections \ without, msg |-> msg]

\* mutant of filterPast: the comparison made strict
filterPastStrict(queue, t) == SelectSeq(queue, LAMBDA item : item.displayTimestamp < t)

\* mutant of filterPast: no item is filtered out
filterPastKeepAll(queue, t) == SelectSeq(queue, LAMBDA item : TRUE)

\* Array.prototype.filter with item => item.displayTimestamp <= t
filterPast(queue, t) == SelectSeq(queue, LAMBDA item : item.displayTimestamp <= t)

\* mutant of insertDesc: the comparator reversed, a.displayTimestamp - b.displayTimestamp
RECURSIVE insertAsc(_, _)
insertAsc(item, sorted) ==
    IF sorted = <<>> THEN <<item>>
    ELSE IF Head(sorted).displayTimestamp <= item.displayTimestamp
         THEN <<Head(sorted)>> \o insertAsc(item, Tail(sorted))
         ELSE <<item>> \o sorted

\* mutant of insertDesc: of two items with equal displayTimestamp the later one
\* comes first
RECURSIVE insertDescTiesLatestFirst(_, _)
insertDescTiesLatestFirst(item, sorted) ==
    IF sorted = <<>> THEN <<item>>
    ELSE IF Head(sorted).displayTimestamp > item.displayTimestamp
         THEN <<Head(sorted)>> \o insertDescTiesLatestFirst(item, Tail(sorted))
         ELSE <<item>> \o sorted

\* Array.prototype.sort((a, b) => b.displayTimestamp - a.displayTimestamp):
\* a stable sort, greatest displayTimestamp first
RECURSIVE insertDesc(_, _)
insertDesc(item, sorted) ==
    IF sorted = <<>> THEN <<item>>
    ELSE IF Head(sorted).displayTimestamp >= item.displayTimestamp
         THEN <<Head(sorted)>> \o insertDesc(item, Tail(sorted))
         ELSE <<item>> \o sorted

RECURSIVE sortDesc(_)
sortDesc(queue) ==
    IF queue = <<>> THEN <<>>
    ELSE insertDesc(queue[Len(queue)], sortDesc(SubSeq(queue, 1, Len(queue) - 1)))

displayedStatements(queue, t) == sortDesc(filterPast(queue, t))

getCurrentActiveStatementId(queue, t) ==
    LET displayed == displayedStatements(queue, t)
    IN  IF Len(displayed) > 0 THEN displayed[1].statementId ELSE DefaultStatementId

queueUpdated(queue) ==
    [type |-> "queueUpdated", allSelectedStatements |-> queue, currentTime |-> now]

(***************************************************************************)
(* The clients.  Each connection is the socket of one component of a       *)
(* browser page: of App (app/client.tsx), which keeps a copy of the queue, *)
(* or of Canvas (app/components/Canvas.tsx), which keeps the cursors it    *)
(* was told about.                                                         *)
(***************************************************************************)
\* null, where a vote state is expected, and where a statement id is
NullVote == "null"
NullId == 0 - 2

\* setInterval(callback, 1000) of App
TimerPeriod == 1000

\* what the callbacks created in a render of App read from its closure
closureOf(a) ==
    [allSelectedStatements |-> a.allSelectedStatements,
     currentTime |-> a.currentTime,
     activeStatementId |-> a.activeStatementId,
     currentVoteState |-> a.currentVoteState]

\* App once mounted at time 0.  The first six fields are the state hooks of
\* lines 39-46 as the next render will read them and canvasVoteStateRef is
\* the ref; rendered is the closure of the render committed last, effects
\* tells that the effects of that commit have not run yet and resubscribe
\* that the timer effect is among them; timer is the closure of the interval
\* callback that is set, with the time it is due; posts are the requests
\* made by fetch, in order.
NewApp ==
    LET state == [allSelectedStatements |-> <<>>,
                  currentTime |-> 0,
                  activeStatementId |-> 1,
                  previousActiveStatementId |-> NullId,
                  currentVoteState |-> NullVote,
                  ghostCursorsEnabled |-> FALSE]
    IN  [allSelectedStatements |-> state.allSelectedStatements,
         currentTime |-> state.currentTime,
         activeStatementId |-> state.activeStatementId,
         previousActiveStatementId |-> state.previousActiveStatementId,
         currentVoteState |-> state.currentVoteState,
         ghostCursorsEnabled |-> state.ghostCursorsEnabled,
         canvasVoteStateRef |-> NullVote,
         rendered |-> closureOf(state),
         effects |-> FALSE,
         resubscribe |-> FALSE,
         timer |-> [closure |-> closureOf(state), due |-> TimerPeriod],
         posts |-> <<>>]

\* Canvas: cursors is the Map of useState, as the set of its positions (one for
\* a userId), timeouts the setTimeout calls that have not fired yet
NewCanvas == [cursors |-> {}, timeouts |-> {}]

(***************************************************************************)
(* Initial state: the field initialisers of class Server, and clients that *)
(* have just mounted.                                                      *)
(***************************************************************************)
Init ==
    /\ now = 0
    /\ connections = {}
    /\ activeStatementId = DefaultStatementId
    /\ allSelectedStatements = <<>>
    /\ votes = <<>>
    /\ ghostCursorsEnabled = FALSE
    /\ ghostCursors = <<>>
    /\ ghostCursorInterval = 0
    /\ timers = {}
    /\ lastActiveStatementId = DefaultStatementId
    /\ sent = <<>>
    /\ request = NoRequest
    /\ response = NoResponse
    /\ op = [type |-> "init", at |-> 0, repeat |-> FALSE]
    /\ statementsPool = <<>>
    /\ fetches = <<>>
    /\ flushed = FALSE
    /\ inbox = [c \in Conns |-> <<>>]
    /\ app = [c \in Conns |-> NewApp]
    /\ canvas = [c \in Conns |-> NewCanvas]

(***************************************************************************)
(* The clock.                                                              *)
(***************************************************************************)
advanceClock(d) ==
    /\ now' = now + d
    /\ UNCHANGED poolVars
    /\ UNCHANGED <<flushed, clientVars>>
    /\ UNCHANGED <<connections, queueVars, votes, simVars, sent, request, response, op>>

(***************************************************************************)
(* Connection life cycle.                                                  *)
(***************************************************************************)
onConnect(conn) ==
    /\ conn \notin connections
    /\ connections' = connections \cup {conn}
    /\ sent' = << [to |-> {conn},
                   msg |-> [type |-> "connected",
                            connectionId |-> conn,
                            activeStatementId |-> activeStatementId,
                            allSelectedStatements |-> allSelectedStatements,
                            currentTime |-> now,
                            ghostCursorsEnabled |-> ghostCursorsEnabled]] >>
    /\ op' = Op("connect")
    /\ flushed' = FALSE
    /\ UNCHANGED clientVars
    /\ UNCHANGED poolVars
    /\ UNCHANGED <<now, queueVars, votes, simVars>>
    /\ request' = NoRequest
    /\ response' = NoResponse

\* the transport drops a closed connection from the room; Server has no onClose
closeConnection(conn) ==
    /\ conn \in connections
    /\ connections' = connections \ {conn}
    /\ sent' = <<>>
    /\ op' = Op("close")
    /\ flushed' = FALSE
    /\ UNCHANGED clientVars
    /\ UNCHANGED poolVars
    /\ UNCHANGED <<now, queueVars, votes, simVars>>
    /\ request' = NoRequest
    /\ response' = NoResponse

(***************************************************************************)
(* onMessage, one action per branch.                                       *)
(***************************************************************************)
\* an inbound message: its text and what JSON.parse makes of it.  kind is
\* "unparseable" when JSON.parse throws, "primitive" for a number, string or
\* boolean, "null", and "object" for an object or array; the other fields are
\* the keys of the object the handler reads
\* event.json of an updateStatementsPool message: "absent" is a missing or
\* falsy value, "array" an array of items, "object" any other truthy value
Json(kind, items) == [kind |-> kind, items |-> items]

NoJson == Json("absent", <<>>)

Message(text, kind, hasPosition, type, statementId, enabled) ==
    [text |-> text, kind |-> kind, hasPosition |-> hasPosition, type |-> type,
     statementId |-> statementId, enabled |-> enabled,
     conversationId |-> "", baseUrl |-> "", json |-> NoJson]

\* an updateStatementsPool message; "" is a missing conversationId or baseUrl
PoolMessage(text, conversationId, baseUrl, json) ==
    [Message(text, "object", FALSE, "updateStatementsPool", 0, FALSE)
        EXCEPT !.conversationId = conversationId, !.baseUrl = baseUrl,
               !.json = json]

\* the delivery of an inbound message as it came, the original string
verbatim(message) == [type |-> "verbatim", text |-> message.text]

\* mutant of relayCursor: the sender is not excluded from the broadcast
relayCursorToEveryone(sender, message) ==
    /\ sender \in connections
    /\ sent' = << broadcast(verbatim(message), {}) >>
    /\ op' = Op("cursor")
    /\ flushed' = FALSE
    /\ UNCHANGED clientVars
    /\ UNCHANGED poolVars
    /\ UNCHANGED <<now, connections, queueVars, votes, simVars>>
    /\ request' = NoRequest
    /\ response' = NoResponse

\* 'position' in event: relay the original string to everybody else
relayCursor(sender, message) ==
    /\ sender \in connections
    /\ sent' = << broadcast(verbatim(message), {sender}) >>
    /\ op' = Op("cursor")
    /\ flushed' = FALSE
    /\ UNCHANGED clientVars
    /\ UNCHANGED poolVars
    /\ UNCHANGED <<now, connections, queueVars, votes, simVars>>
    /\ request' = NoRequest
    /\ response' = NoResponse

setActiveStatement(sender, statementId) ==
    /\ sender \in connections
    /\ activeStatementId' = statementId
    /\ sent' = << broadcast([type |-> "activeStatementChanged",
                             statementId |-> statementId], {}) >>
    /\ op' = Op("setActiveStatement")
    /\ flushed' = FALSE
    /\ UNCHANGED clientVars
    /\ UNCHANGED poolVars
    /\ UNCHANGED <<now, connections, allSelectedStatements, votes, simVars>>
    /\ request' = NoRequest
    /\ response' = NoResponse

\* mutant of queueStatementDisplayTimestamp: the immediate path forgotten
displayTimestampAlwaysDelayed(queue, t) == t + QueueDelay

\* mutant of queueStatementDisplayTimestamp: immediate as soon as the item queued
\* last is the sentinel, whether or not it is active yet
displayTimestampAfterSentinel(queue, t) ==
    IF Len(queue) > 0 /\ queue[Len(queue)].statementId = EndVotingId
    THEN t
    ELSE t + QueueDelay

\* mutant of queueStatementDisplayTimestamp: the stored active id is read
\* instead of the derived one
displayTimestampFromStoredId(queue, t) ==
    IF activeStatementId = EndVotingId THEN t ELSE t + QueueDelay

\* lines 135-145 of queueStatement: the displayTimestamp given to a new item
queueStatementDisplayTimestamp(queue, t) ==
    IF getCurrentActiveStatementId(queue, t) = EndVotingId
    THEN t
    ELSE t + QueueDelay

\* mutant of queueStatement: the update is not sent back to the sender
queueStatementExcludingSender(sender, statementId) ==
    /\ sender \in connections
    /\ LET displayTimestamp == queueStatementDisplayTimestamp(allSelectedStatements, now)
           queueItem == QueueItem(statementId, displayTimestamp)
       IN  /\ allSelectedStatements' = Append(allSelectedStatements, queueItem)
           /\ sent' = << broadcast(queueUpdated(allSelectedStatements'), {sender}) >>
    /\ op' = Op("queueStatement")
    /\ flushed' = FALSE
    /\ UNCHANGED clientVars
    /\ request' = NoRequest
    /\ response' = NoResponse
    /\ UNCHANGED poolVars
    /\ UNCHANGED <<now, connections, activeStatementId, votes, simVars>>

queueStatement(sender, statementId) ==
    /\ sender \in connections
    /\ LET displayTimestamp == queueStatementDisplayTimestamp(allSelectedStatements, now)
           queueItem == QueueItem(statementId, displayTimestamp)
       IN  /\ allSelectedStatements' = Append(allSelectedStatements, queueItem)
           /\ sent' = << broadcast(queueUpdated(allSelectedStatements'), {}) >>
    /\ op' = Op("queueStatement")
    /\ flushed' = FALSE
    /\ UNCHANGED clientVars
    /\ UNCHANGED poolVars
    /\ UNCHANGED <<now, connections, activeStatementId, votes, simVars>>
    /\ request' = NoRequest
    /\ response' = NoResponse

\* mutant of clearedQueue: every past statement kept, only the future ones removed
clearedQueueKeepPast(queue, t) == filterPast(queue, t)

\* mutant of clearedQueue: the whole queue emptied
clearedQueueEmpty(queue, t) == <<>>

\* mutant of clearedQueue: only the item queued last is removed, if still in the future
clearedQueuePopFuture(queue, t) ==
    IF Len(queue) > 0 /\ queue[Len(queue)].displayTimestamp > t
    THEN SubSeq(queue, 1, Len(queue) - 1)
    ELSE queue

\* lines 179-184 of clearQueue: the queue that replaces allSelectedStatements
clearedQueue(queue, t) ==
    LET pastStatements == sortDesc(filterPast(queue, t))
    IN  IF Len(pastStatements) > 0 THEN <<pastStatements[1]>> ELSE <<>>

clearQueue(sender) ==
    /\ sender \in connections
    /\ allSelectedStatements' = clearedQueue(allSelectedStatements, now)
    /\ sent' = << broadcast(queueUpdated(allSelectedStatements'), {}) >>
    /\ op' = Op("clearQueue")
    /\ flushed' = FALSE
    /\ UNCHANGED clientVars
    /\ UNCHANGED poolVars
    /\ UNCHANGED <<now, connections, activeStatementId, votes, simVars>>
    /\ request' = NoRequest
    /\ response' = NoResponse

\* mutant of dropMessage: the failure is reported to the room
dropMessageReportingError(sender, why) ==
    /\ sender \in connections
    /\ sent' = << broadcast([type |-> "error", text |-> why], {}) >>
    /\ op' = Op(why)
    /\ flushed' = FALSE
    /\ UNCHANGED clientVars
    /\ UNCHANGED poolVars
    /\ UNCHANGED <<now, connections, queueVars, votes, simVars>>
    /\ request' = NoRequest
    /\ response' = NoResponse

\* JSON.parse throws, the in operator throws on a value that is not an object,
\* or no branch of onMessage matches the event: nothing happens
dropMessage(sender, why) ==
    /\ sender \in connections
    /\ sent' = <<>>
    /\ op' = Op(why)
    /\ flushed' = FALSE
    /\ UNCHANGED clientVars
    /\ UNCHANGED poolVars
    /\ UNCHANGED <<now, connections, queueVars, votes, simVars>>
    /\ request' = NoRequest
    /\ response' = NoResponse

(***************************************************************************)
(* Ghost-cursor simulator.  Coordinates are fixed-point numbers: Unit      *)
(* model units make one canvas unit, so the canvas is [0, 100 * Unit].     *)
(* Fractions (Math.random(), progress, easing, noise) are in thousandths.  *)
(***************************************************************************)
Unit == 100
GhostCursorCount == 10
TickPeriod == 100
TransitionDuration == 2000
MinMoveDuration == 1000
DefaultTimeUntilNext == 10000
Seeds == {1, 2}

Min(a, b) == IF a <= b THEN a ELSE b
Max(a, b) == IF a >= b THEN a ELSE b

\* the k-th Math.random() draw made for cursor i under seed, in thousandths: 0..999
random(seed, i, k) == (seed * 617 + i * 211 + k * 389 + i * k * 53) % 1000

voteAreas == << [x |-> 97 * Unit, y |-> 8 * Unit],
                [x |-> 3 * Unit, y |-> 85 * Unit],
                [x |-> 97 * Unit, y |-> 85 * Unit] >>

\* voteAreas[Math.floor(Math.random() * voteAreas.length)]
pickVoteArea(r) == voteAreas[((r * Len(voteAreas)) \div 1000) + 1]

\* mutant of clamp: the upper bound forgotten
clampBelowOnly(v) == Max(0, v)

\* Math.max(0, Math.min(100, v))
clamp(v) == Max(0, Min(100 * Unit, v))

\* t < 0.5 ? 4 * t * t * t : 1 - Math.pow(-2 * t + 2, 3) / 2, t in thousandths
easeInOutCubic(t) ==
    IF t < 500 THEN (4 * t * t * t) \div 1000000
    ELSE 1000 - (((2000 - 2 * t) * (2000 - 2 * t) * (2000 - 2 * t)) \div 2000000)

\* this.noise2D(offset, time): a fixed coherent-noise function into [-1, 1]
noise2D(offset, time) == ((offset * 7 + time * 13) % 2001) - 1000

newGhostCursor(seed, i, t) ==
    LET side == (random(seed, i, 1) * 4) \div 1000
        along == (random(seed, i, 2) * 100 * Unit) \div 1000
        startX == CASE side = 0 -> along
                    [] side = 1 -> 105 * Unit
                    [] side = 2 -> along
                    [] OTHER -> 0 - 5 * Unit
        startY == CASE side = 0 -> 0 - 5 * Unit
                    [] side = 1 -> along
                    [] side = 2 -> 105 * Unit
                    [] OTHER -> along
        targetArea == pickVoteArea(random(seed, i, 3))
        isActiveCursor == random(seed, i, 4) < 300
        restingSpeed == IF isActiveCursor
                        THEN 800 + (random(seed, i, 5) * 700) \div 1000
                        ELSE 200 + (random(seed, i, 5) * 400) \div 1000
        restingRadius == IF isActiveCursor
                         THEN 4 * Unit + (random(seed, i, 6) * 4 * Unit) \div 1000
                         ELSE 2 * Unit + (random(seed, i, 6) * 3 * Unit) \div 1000
    IN  [ id |-> <<seed, i>>,
          x |-> startX,
          y |-> startY,
          targetX |-> targetArea.x,
          targetY |-> targetArea.y,
          isMoving |-> TRUE,
          moveStartTime |-> t + (random(seed, i, 7) * 2000) \div 1000,
          moveDuration |-> 3000 + (random(seed, i, 8) * 2000) \div 1000,
          voteArea |-> [x |-> targetArea.x, y |-> targetArea.y],
          noiseOffsetX |-> random(seed, i, 9),
          noiseOffsetY |-> random(seed, i, 10),
          restingSpeed |-> restingSpeed,
          restingRadius |-> restingRadius,
          transitionStartTime |-> 0,
          transitionDuration |-> TransitionDuration,
          finalMovePosition |-> [x |-> startX, y |-> startY] ]

\* mutant of initializeGhostCursors: the loop stops one cursor short
initializeGhostCursorsOneShort(seed, t) ==
    [i \in 1..(GhostCursorCount - 1) |-> newGhostCursor(seed, i, t)]

\* lines 229-296: the population emptied, then ten cursors pushed
initializeGhostCursors(seed, t) ==
    [i \in 1..GhostCursorCount |-> newGhostCursor(seed, i, t)]

ghostEvent(type, x, y, cursor) ==
    [type |-> type,
     position |-> [x |-> x, y |-> y, timestamp |-> now, userId |-> cursor.id]]

\* setInterval(callback, 100): a fresh timer id, first due one period from now
freeTimerId(armed) == CHOOSE n \in 1..(Cardinality(armed) + 1) : \A tm \in armed : tm.id # n

\* clearInterval(id)
clearInterval(armed, id) == {tm \in armed : tm.id # id}

\* mutant of startGhostCursorAnimation: the running interval is not cleared
startGhostCursorAnimationWithoutClear(armed, interval) ==
    LET id == freeTimerId(armed)
    IN  [timers |-> armed \cup {[id |-> id, due |-> now + TickPeriod]},
         interval |-> id]

startGhostCursorAnimation(armed, interval) ==
    LET cleared == IF interval # 0 THEN clearInterval(armed, interval) ELSE armed
        id == freeTimerId(cleared)
    IN  [timers |-> cleared \cup {[id |-> id, due |-> now + TickPeriod]},
         interval |-> id]

\* mutant of stopGhostCursorAnimation: the handle is forgotten, the interval
\* is not cleared
stopGhostCursorAnimationKeepingTimer(armed, interval) ==
    [timers |-> armed, interval |-> 0]

stopGhostCursorAnimation(armed, interval) ==
    IF interval # 0
    THEN [timers |-> clearInterval(armed, interval), interval |-> 0]
    ELSE [timers |-> armed, interval |-> interval]

\* mutant of removeEvents: the population is emptied before it is walked
removeEventsAfterEmptying(cursors) ==
    [i \in 1..Len(<<>>) |-> broadcast(ghostEvent("remove", 0, 0, cursors[i]), {})]

\* lines 203-213: one remove event broadcast for every cursor of the population
removeEvents(cursors) ==
    [i \in 1..Len(cursors) |-> broadcast(ghostEvent("remove", 0, 0, cursors[i]), {})]

setGhostCursorsEnabled(sender, enabled, seed) ==
    /\ sender \in connections
    /\ ghostCursorsEnabled' = enabled
    /\ IF enabled
       THEN LET started == startGhostCursorAnimation(timers, ghostCursorInterval)
            IN  /\ ghostCursors' = initializeGhostCursors(seed, now)
                /\ timers' = started.timers
                /\ ghostCursorInterval' = started.interval
                /\ sent' = << broadcast([type |-> "ghostCursorsChanged",
                                         enabled |-> enabled], {}) >>
       ELSE LET stopped == stopGhostCursorAnimation(timers, ghostCursorInterval)
            IN  /\ timers' = stopped.timers
                /\ ghostCursorInterval' = stopped.interval
                /\ sent' = removeEvents(ghostCursors)
                           \o << broadcast([type |-> "ghostCursorsChanged",
                                            enabled |-> enabled], {}) >>
                /\ ghostCursors' = <<>>
    /\ op' = Op(IF enabled THEN "enableGhostCursors" ELSE "disableGhostCursors")
    /\ flushed' = FALSE
    /\ UNCHANGED clientVars
    /\ request' = NoRequest
    /\ response' = NoResponse
    /\ UNCHANGED poolVars
    /\ UNCHANGED <<now, connections, queueVars, votes, lastActiveStatementId>>

\* the time until the next queued statement, 10 seconds when there is none
timeUntilNext(queue, t) ==
    LET future == {i \in 1..Len(queue) : queue[i].displayTimestamp > t}
    IN  IF future = {} THEN DefaultTimeUntilNext
        ELSE LET next == CHOOSE i \in future :
                             \A j \in future :
                                 queue[i].displayTimestamp <= queue[j].displayTimestamp
             IN  queue[next].displayTimestamp - t

\* mutant of retargetCursor: the move duration is not clamped from below
retargetCursorUnclamped(cursor, seed, i, until, t) ==
    LET newTarget == pickVoteArea(random(seed, i, 1))
        maxStartDelay == (until * 2) \div 10
        startDelay == (random(seed, i, 2) * maxStartDelay) \div 1000
        maxEarlyFinish == (until * 2) \div 10
        earlyFinish == (random(seed, i, 3) * maxEarlyFinish) \div 1000
        availableMoveDuration == until - startDelay - earlyFinish
    IN  [cursor EXCEPT !.targetX = newTarget.x,
                       !.targetY = newTarget.y,
                       !.isMoving = TRUE,
                       !.moveStartTime = t + startDelay,
                       !.moveDuration = availableMoveDuration]

\* lines 409-429: one cursor's new target, start time and duration
retargetCursor(cursor, seed, i, until, t) ==
    LET newTarget == pickVoteArea(random(seed, i, 1))
        maxStartDelay == (until * 2) \div 10
        startDelay == (random(seed, i, 2) * maxStartDelay) \div 1000
        maxEarlyFinish == (until * 2) \div 10
        earlyFinish == (random(seed, i, 3) * maxEarlyFinish) \div 1000
        availableMoveDuration == until - startDelay - earlyFinish
    IN  [cursor EXCEPT !.targetX = newTarget.x,
                       !.targetY = newTarget.y,
                       !.isMoving = TRUE,
                       !.moveStartTime = t + startDelay,
                       !.moveDuration = Max(MinMoveDuration, availableMoveDuration)]

moveGhostCursorsToNewTargets(cursors, enabled, queue, seed, t) ==
    IF ~enabled THEN cursors
    ELSE [i \in 1..Len(cursors) |->
             retargetCursor(cursors[i], seed, i, timeUntilNext(queue, t), t)]

\* the result of checkForStatementChanges: the new lastActiveStatementId and cursors
checkForStatementChanges(cursors, enabled, last, queue, seed, t) ==
    LET currentActiveId == getCurrentActiveStatementId(queue, t)
    IN  IF enabled /\ currentActiveId # last
        THEN [last |-> currentActiveId,
              cursors |-> moveGhostCursorsToNewTargets(cursors, enabled, queue, seed, t)]
        ELSE [last |-> last, cursors |-> cursors]

\* mutant of reachedTarget: only the distance ends the approach
reachedTargetByDistanceOnly(dx, dy, progress) ==
    dx * dx + dy * dy < (2 * Unit) * (2 * Unit)

\* lines 334-339: distanceToTarget < 2 || progress >= 1, the distance compared
\* by its square
reachedTarget(dx, dy, progress) ==
    dx * dx + dy * dy < (2 * Unit) * (2 * Unit) \/ progress >= 1000

\* one cursor's step in updateGhostCursors
updateGhostCursor(cursor, t) ==
    IF cursor.isMoving /\ t >= cursor.moveStartTime
    THEN LET elapsed == t - cursor.moveStartTime
             progress == Min((elapsed * 1000) \div cursor.moveDuration, 1000)
             easeProgress == easeInOutCubic(progress)
             x == cursor.x + ((cursor.targetX - cursor.x) * easeProgress) \div 10000
             y == cursor.y + ((cursor.targetY - cursor.y) * easeProgress) \div 10000
             dx == cursor.targetX - x
             dy == cursor.targetY - y
         IN  IF reachedTarget(dx, dy, progress)
             THEN [cursor EXCEPT !.x = x, !.y = y,
                                 !.isMoving = FALSE,
                                 !.transitionStartTime = t,
                                 !.finalMovePosition = [x |-> x, y |-> y],
                                 !.voteArea = [x |-> x, y |-> y]]
             ELSE [cursor EXCEPT !.x = x, !.y = y]
    ELSE IF ~cursor.isMoving
    THEN LET transitionElapsed == t - cursor.transitionStartTime
             transitionProgress ==
                 Min((transitionElapsed * 1000) \div cursor.transitionDuration, 1000)
             time == (t * cursor.restingSpeed) \div 2000000
             noiseX == noise2D(cursor.noiseOffsetX, time)
             noiseY == noise2D(cursor.noiseOffsetY, time)
             noiseTargetX == cursor.voteArea.x + (noiseX * cursor.restingRadius) \div 1000
             noiseTargetY == cursor.voteArea.y + (noiseY * cursor.restingRadius) \div 1000
             easeProgress == easeInOutCubic(transitionProgress)
             x == IF transitionProgress < 1000
                  THEN cursor.finalMovePosition.x
                       + ((noiseTargetX - cursor.finalMovePosition.x) * easeProgress) \div 1000
                  ELSE noiseTargetX
             y == IF transitionProgress < 1000
                  THEN cursor.finalMovePosition.y
                       + ((noiseTargetY - cursor.finalMovePosition.y) * easeProgress) \div 1000
                  ELSE noiseTargetY
         IN  [cursor EXCEPT !.x = clamp(x), !.y = clamp(y)]
    ELSE cursor

updateGhostCursors(cursors, t) ==
    [i \in 1..Len(cursors) |-> updateGhostCursor(cursors[i], t)]

\* mutant of moveEvent: the stored position is sent as it is
moveEventUnclamped(cursor) == ghostEvent("move", cursor.x, cursor.y, cursor)

\* lines 375-383: the move event of one cursor, its position clamped
moveEvent(cursor) == ghostEvent("move", clamp(cursor.x), clamp(cursor.y), cursor)

\* mutant of moveEvents: only the cursors that are moving are reported
moveEventsOfMovingCursors(cursors) ==
    LET moving == SelectSeq(cursors, LAMBDA cursor : cursor.isMoving)
    IN  [i \in 1..Len(moving) |-> broadcast(moveEvent(moving[i]), {})]

\* the broadcasts of updateGhostCursors: one move event per cursor, in order
moveEvents(cursors) ==
    [i \in 1..Len(cursors) |-> broadcast(moveEvent(cursors[i]), {})]

\* the setInterval callback: checkForStatementChanges(); updateGhostCursors()
tick(timer, seed) ==
    /\ timer \in timers
    /\ now >= timer.due
    /\ timers' = (timers \ {timer}) \cup {[id |-> timer.id, due |-> now + TickPeriod]}
    /\ LET checked == checkForStatementChanges(ghostCursors, ghostCursorsEnabled,
                                               lastActiveStatementId,
                                               allSelectedStatements, seed, now)
           updated == IF ghostCursorsEnabled
                      THEN updateGhostCursors(checked.cursors, now)
                      ELSE checked.cursors
       IN  /\ lastActiveStatementId' = checked.last
           /\ ghostCursors' = updated
           /\ sent' = IF ghostCursorsEnabled THEN moveEvents(updated) ELSE <<>>
    /\ op' = Op("tick")
    /\ flushed' = FALSE
    /\ UNCHANGED clientVars
    /\ request' = NoRequest
    /\ response' = NoResponse
    /\ UNCHANGED poolVars
    /\ UNCHANGED <<now, connections, queueVars, votes, ghostCursorsEnabled,
                   ghostCursorInterval>>


(***************************************************************************)
(* The statements pool (unnamed/part_002).  updateStatementsPool is an     *)
(* async method: with a json argument it runs to its end within the        *)
(* message handler; with a conversationId it starts a fetch and resumes    *)
(* when the fetch settles, other handlers running in between.              *)
(***************************************************************************)
\* an item of event.json: "null" is the JSON null, "object" an object with
\* the keys text, txt, statementId and tid ("" and 0 when missing)
Item(kind, text, txt, statementId, tid) ==
    [kind |-> kind, text |-> text, txt |-> txt, statementId |-> statementId,
     tid |-> tid]

\* a PolisStatement
Statement(txt, tid, created) ==
    [txt |-> txt, tid |-> tid, created |-> created, is_seed |-> FALSE,
     is_meta |-> FALSE, lang |-> "en", pid |-> 0]

\* new Date().toISOString(), the time written out
toISOString(t) == ToString(t)

\* the map callback of lines 272-280: item.text || item.txt and so on; the
\* items carry none of created, is_seed, is_meta, lang and pid
toPolisStatement(item, t) ==
    Statement(IF item.text # "" THEN item.text ELSE item.txt,
              IF item.statementId # 0 THEN item.statementId ELSE item.tid,
              toISOString(t))

\* the URL fetched: baseUrl || 'https://pol.is', and the conversation
polisUrl(baseUrl, conversationId) ==
    [baseUrl |-> IF baseUrl # "" THEN baseUrl ELSE "https://pol.is",
     conversationId |-> conversationId]

\* what the fetch and response.json() come to: "networkError" when fetch
\* rejects, "notOk" a response with ok false, "badJson" when response.json()
\* rejects, "notArray" parsed data that is no array, "array" an array
FetchResult(kind, status, data) == [kind |-> kind, status |-> status, data |-> data]

\* the try block up to line 286: newStatements, or the error thrown
Loaded(statements) == [ok |-> TRUE, statements |-> statements, error |-> ""]
Thrown(error) == [ok |-> FALSE, statements |-> <<>>, error |-> error]

\* lines 267-283, the json argument
statementsFromJson(json, t) ==
    IF json.kind = "array"
    THEN IF \E k \in DOMAIN json.items : json.items[k].kind = "null"
         THEN Thrown("Cannot read properties of null")
         ELSE Loaded([k \in DOMAIN json.items |-> toPolisStatement(json.items[k], t)])
    ELSE Thrown("Invalid JSON format - expected array")

\* lines 254-266, after the fetch has settled
statementsFromResponse(result) ==
    CASE result.kind = "networkError" -> Thrown("fetch failed")
      [] result.kind = "notOk" ->
            Thrown("Failed to fetch from Polis API: " \o ToString(result.status))
      [] result.kind = "badJson" -> Thrown("Unexpected token")
      [] result.kind = "notArray" ->
            Thrown("Invalid Polis API response - expected array")
      [] OTHER -> Loaded(result.data)

\* mutant of statementsPoolAfter: the pool is assigned whatever was loaded
statementsPoolAssignedUnchecked(pool, outcome) == outcome.statements

\* line 289 is reached only when nothing was thrown
statementsPoolAfter(pool, outcome) ==
    IF outcome.ok THEN outcome.statements ELSE pool

\* lines 288-306: the assignment and the broadcast, or the catch block
statementsPoolSettled(outcome) ==
    /\ statementsPool' = statementsPoolAfter(statementsPool, outcome)
    /\ sent' = IF outcome.ok
               THEN << broadcast([type |-> "statementsPoolUpdated",
                                  statementsPool |-> statementsPool',
                                  currentTime |-> now], {}) >>
               ELSE << broadcast([type |-> "statementsPoolError",
                                  error |-> outcome.error,
                                  currentTime |-> now], {}) >>

\* the updateStatementsPool branch of onMessage with the part of the method
\* that runs before the handler returns
updateStatementsPool(sender, message) ==
    /\ sender \in connections
    /\ IF message.conversationId # ""
       THEN /\ fetches' = Append(fetches, polisUrl(message.baseUrl,
                                                   message.conversationId))
            /\ statementsPool' = statementsPool
            /\ sent' = <<>>
       ELSE IF message.json.kind # "absent"
       THEN /\ statementsPoolSettled(statementsFromJson(message.json, now))
            /\ fetches' = fetches
       ELSE /\ UNCHANGED poolVars
            /\ sent' = <<>>
    /\ op' = Op("updateStatementsPool")
    /\ flushed' = FALSE
    /\ UNCHANGED clientVars
    /\ request' = NoRequest
    /\ response' = NoResponse
    /\ UNCHANGED <<now, connections, queueVars, votes, simVars>>

\* updateStatementsPool resumed after await fetch(...): the fetch at index i
\* has settled with result
updateStatementsPoolResumed(i, result) ==
    /\ i \in DOMAIN fetches
    /\ fetches' = SubSeq(fetches, 1, i - 1) \o SubSeq(fetches, i + 1, Len(fetches))
    /\ statementsPoolSettled(statementsFromResponse(result))
    /\ op' = Op("fetchSettled")
    /\ flushed' = FALSE
    /\ UNCHANGED clientVars
    /\ request' = NoRequest
    /\ response' = NoResponse
    /\ UNCHANGED <<now, connections, queueVars, votes, simVars>>

(***************************************************************************)
(* onMessage: JSON.parse, then the first branch that matches.              *)
(***************************************************************************)
onMessage(sender, message, seed) ==
    IF message.kind = "unparseable"
    THEN dropMessage(sender, "parseError")
    ELSE IF message.kind \in {"primitive", "null"}
    THEN dropMessage(sender, "typeError")
    ELSE IF message.hasPosition
    THEN relayCursor(sender, message)
    ELSE IF message.type = "setActiveStatement"
    THEN setActiveStatement(sender, message.statementId)
    ELSE IF message.type = "queueStatement"
    THEN queueStatement(sender, message.statementId)
    ELSE IF message.type = "clearQueue"
    THEN clearQueue(sender)
    ELSE IF message.type = "updateStatementsPool"
    THEN updateStatementsPool(sender, message)
    ELSE IF message.type = "setGhostCursors"
    THEN setGhostCursorsEnabled(sender, message.enabled, seed)
    ELSE dropMessage(sender, "noBranch")

(***************************************************************************)
(* onRequest: the vote ledger.                                             *)
(***************************************************************************)
\* url.pathname.endsWith("/" + segment), the path given as its segments
endsWith(path, segment) == Len(path) > 0 /\ path[Len(path)] = segment

\* mutant of isValidVoteValue: only the type of the vote is checked
isNumber(v) == v.t = "number"

\* [-1, 0, 1].includes(v)
isValidVoteValue(v) == v.t = "number" /\ v.n \in {0 - 1, 0, 1}

\* mutant of invalidVoteData: the userId is not looked at
invalidVoteDataIgnoringUserId(voteData) ==
    \/ voteData.statementId.t # "number"
    \/ voteData.vote.t # "number"
    \/ ~isValidVoteValue(voteData.vote)

\* the validation of lines 457-458: TRUE when the record is rejected
invalidVoteData(voteData) ==
    \/ ~truthy(voteData.userId)
    \/ voteData.statementId.t # "number"
    \/ voteData.vote.t # "number"
    \/ ~isValidVoteValue(voteData.vote)

\* the record pushed on the ledger: the body with its timestamp filled in
storedVote(voteData, t) ==
    [userId |-> voteData.userId,
     statementId |-> voteData.statementId,
     vote |-> voteData.vote,
     timestamp |-> IF ~truthy(voteData.timestamp) THEN Num(t) ELSE voteData.timestamp]

\* mutant of storeVote: one record per user and statement, a repeated
\* submission replaces the earlier one
storeVoteOncePerUser(ledger, voteData, t) ==
    Append(SelectSeq(ledger, LAMBDA v : ~(v.userId = voteData.userId
                                          /\ v.statementId = voteData.statementId)),
           storedVote(voteData, t))

\* lines 469-476: this.votes.push(voteData), the timestamp filled in
storeVote(ledger, voteData, t) == Append(ledger, storedVote(voteData, t))

\* mutant of votesCleared: the response reports how many records were removed
votesClearedWithCount(ledger) ==
    Response(200, "", {"success", "voteCount"}, Len(ledger), "", <<>>)

\* lines 503-505: the response to DELETE /votes
votesCleared(ledger) ==
    Response(200, "", {"success", "message"}, 0, "All votes cleared", <<>>)

onRequest(req) ==
    /\ request' = req
    /\ IF req.method = "POST" /\ endsWith(req.path, "vote")
       THEN IF req.body.kind \in {"unparseable", "null"}
            THEN \* request.json() rejects, or reading voteData.userId throws
                 /\ response' = Response(500, "Error processing vote", {}, 0, "", <<>>)
                 /\ votes' = votes
            ELSE IF invalidVoteData(req.body)
            THEN /\ response' = Response(400, "Invalid vote data", {}, 0, "", <<>>)
                 /\ votes' = votes
            ELSE /\ votes' = storeVote(votes, req.body, now)
                 /\ response' = Response(200, "", {"success", "voteCount"},
                                         Len(votes'), "", <<>>)
       ELSE IF req.method = "GET" /\ endsWith(req.path, "votes")
       THEN /\ response' = Response(200, "", {}, 0, "", votes)
            /\ votes' = votes
       ELSE IF req.method = "DELETE" /\ endsWith(req.path, "votes")
       THEN /\ votes' = <<>>
            /\ response' = votesCleared(votes)
       ELSE /\ response' = Response(200, "Cursor tracking server is running",
                                    {}, 0, "", <<>>)
            /\ votes' = votes
    /\ sent' = <<>>
    /\ op' = Op("request")
    /\ flushed' = FALSE
    /\ UNCHANGED clientVars
    /\ UNCHANGED poolVars
    /\ UNCHANGED <<now, connections, queueVars, simVars>>


(***************************************************************************)
(* Requests offered to onRequest.                                          *)
(***************************************************************************)
VotePath == <<"parties", "main", "room", "vote">>
VotesPath == <<"parties", "main", "room", "votes">>
RoomPath == <<"parties", "main", "room">>

ValidBodies ==
    {Body("object", Str("u1"), Num(5), Num(v), ts) :
        v \in {0 - 1, 0, 1}, ts \in {Undefined, Num(0), Num(7)}}

InvalidBodies ==
    { Body("object", Str("u2"), Num(5), Num(7), Undefined),
      Body("object", Str("u2"), Num(5), Num(2), Num(7)),
      Body("object", Str("u2"), Num(5), Str("1"), Undefined),
      Body("object", Str("u2"), Num(5), Undefined, Undefined),
      Body("object", Str(""), Num(5), Num(1), Undefined),
      Body("object", Undefined, Num(5), Num(1), Undefined),
      Body("object", Str("u2"), Str("5"), Num(1), Undefined),
      Body("object", Str("u2"), Undefined, Num(0), Undefined),
      Body("primitive", Undefined, Undefined, Undefined, Undefined),
      Body("null", Undefined, Undefined, Undefined, Undefined),
      Body("unparseable", Undefined, Undefined, Undefined, Undefined) }

VoteBodies == ValidBodies \cup InvalidBodies

Requests ==
    {Request("POST", VotePath, b) : b \in VoteBodies}
    \cup { Request("GET", VotesPath, NoBody),
           Request("DELETE", VotesPath, NoBody),
           Request("GET", VotePath, NoBody),
           Request("POST", VotesPath, Body("object", Str("u1"), Num(5), Num(1), Undefined)),
           Request("GET", RoomPath, NoBody) }

\* the requests that may grow the ledger
isVotePost(req) == req.method = "POST" /\ endsWith(req.path, "vote")

(***************************************************************************)
(* The sockets: what a handler sent reaches the inbox of every connection  *)
(* it was sent to, in the order of the sends, and is delivered to the      *)
(* client from the head of the inbox.                                      *)
(***************************************************************************)
\* the messages of the last handler that went to connection c, in order
sentTo(c) ==
    LET mine == SelectSeq(sent, LAMBDA d : c \in d.to)
    IN  [k \in 1..Len(mine) |-> mine[k].msg]

flush ==
    /\ ~flushed
    /\ flushed' = TRUE
    /\ inbox' = [c \in Conns |-> inbox[c] \o sentTo(c)]
    /\ UNCHANGED <<serverVars, app, canvas>>

\* everything sent so far has been delivered
quiet == flushed /\ \A c \in Conns : inbox[c] = <<>>

(***************************************************************************)
(* Canvas (app/components/Canvas.tsx): the socket's onMessage and the      *)
(* inactivity timeout it schedules for every cursor event.                 *)
(***************************************************************************)
InactivityTimeout == 3000

\* the userId prop of the Canvas behind connection c, never a ghost cursor's id
ownUserId(c) == <<0, IF c = "c1" THEN 1 ELSE 2>>

\* data.position is there: the message is a cursor event
isCursorEvent(data) == data.type \in {"move", "touch", "remove"}

\* newCursors.delete(userId)
cursorsWithout(cursors, userId) == {p \in cursors : p.userId # userId}

\* newCursors.set(position.userId, position)
cursorsWith(cursors, position) ==
    cursorsWithout(cursors, position.userId) \cup {position}

\* lines 330-337: the cursor is deleted if it still carries the timestamp of
\* the event that scheduled the timeout
cursorsAfterTimeout(cursors, timeout) ==
    {p \in cursors : ~(p.userId = timeout.userId /\ p.timestamp = timeout.timestamp)}

\* lines 307-341 on one parsed message
canvasAfterMessage(cv, data, userId, t) ==
    IF isCursorEvent(data) /\ data.position.userId # userId
    THEN IF data.type = "remove"
         THEN [cv EXCEPT !.cursors = cursorsWithout(@, data.position.userId)]
         ELSE [cursors |-> cursorsWith(cv.cursors, data.position),
               timeouts |-> cv.timeouts \cup
                               {[userId |-> data.position.userId,
                                 timestamp |-> data.position.timestamp,
                                 due |-> t + InactivityTimeout]}]
    ELSE cv

\* the head of the inbox is delivered to the Canvas behind connection c; the
\* cursor events clients send to each other are not among the messages here
canvasOnMessage(c) ==
    /\ inbox[c] # <<>>
    /\ Head(inbox[c]).type # "verbatim"
    /\ canvas' = [canvas EXCEPT ![c] = canvasAfterMessage(@, Head(inbox[c]),
                                                          ownUserId(c), now)]
    /\ inbox' = [inbox EXCEPT ![c] = Tail(@)]
    /\ UNCHANGED <<serverVars, flushed, app>>

\* a timeout scheduled at line 329 fires
canvasTimeout(c, timeout) ==
    /\ timeout \in canvas[c].timeouts
    /\ now >= timeout.due
    /\ canvas' = [canvas EXCEPT ![c] =
                     [cursors |-> cursorsAfterTimeout(@.cursors, timeout),
                      timeouts |-> @.timeouts \ {timeout}]]
    /\ UNCHANGED <<serverVars, flushed, inbox, app>>

(***************************************************************************)
(* App (app/client.tsx).  A state setter takes effect in the fields of the *)
(* state at once; the next render reads them.  React renders when the      *)
(* state has changed and the effects of the commit before have run, and    *)
(* runs the effects of a commit in a task of its own, so that a socket     *)
(* message, an input event or the interval callback can run between a      *)
(* commit and its effects.                                                 *)
(***************************************************************************)
\* the socket's onMessage, lines 52-77, on one parsed message; an empty array
\* is truthy, the time 0 is not
appAfterMessage(a, data) ==
    IF data.type = "connected"
    THEN [a EXCEPT !.allSelectedStatements = data.allSelectedStatements,
                   !.currentTime = IF data.currentTime # 0 THEN data.currentTime ELSE @,
                   !.ghostCursorsEnabled = data.ghostCursorsEnabled]
    ELSE IF data.type = "queueUpdated"
    THEN [a EXCEPT !.allSelectedStatements = data.allSelectedStatements,
                   !.currentTime = data.currentTime]
    ELSE IF data.type = "ghostCursorsChanged"
    THEN [a EXCEPT !.ghostCursorsEnabled = data.enabled]
    ELSE a

\* the head of the inbox is delivered to the App behind connection c
appOnMessage(c) ==
    /\ inbox[c] # <<>>
    /\ app' = [app EXCEPT ![c] = appAfterMessage(@, Head(inbox[c]))]
    /\ inbox' = [inbox EXCEPT ![c] = Tail(@)]
    /\ UNCHANGED <<serverVars, flushed, canvas>>

\* line 113
voteValue(voteState) ==
    IF voteState = "agree" THEN 1 ELSE IF voteState = "disagree" THEN 0 - 1 ELSE 0

\* submitVote, lines 101-144: the posts after the call
submitVote(posts, userId, statementId, voteState, t) ==
    IF voteState = NullVote \/ statementId = 0 THEN posts
    ELSE IF statementId = EndVotingId THEN posts
    ELSE Append(posts, [userId |-> userId, statementId |-> statementId,
                        vote |-> voteValue(voteState), timestamp |-> t])

\* lines 155-169 and, the same once more, lines 180-194: the active id is
\* derived from the closure's queue at time t and compared with the
\* closure's activeStatementId
activeStatementUpdate(a, closure, userId, t) ==
    LET newActiveId == getCurrentActiveStatementId(closure.allSelectedStatements, t)
        voteToSubmit == IF closure.currentVoteState # NullVote
                        THEN closure.currentVoteState
                        ELSE a.canvasVoteStateRef
    IN  IF newActiveId # closure.activeStatementId
        THEN [a EXCEPT !.posts = IF closure.activeStatementId # 0 /\ voteToSubmit # NullVote
                                 THEN submitVote(@, userId, closure.activeStatementId,
                                                 voteToSubmit, t)
                                 ELSE @,
                       !.previousActiveStatementId = closure.activeStatementId,
                       !.activeStatementId = newActiveId,
                       !.currentVoteState = NullVote,
                       !.canvasVoteStateRef = NullVote]
        ELSE a

\* the canvas reports the vote area under the mouse (CountdownTimer.tsx
\* 234-244): the ref is written and handleVoteStateChange sets the state
appMouseMove(c, voteState) ==
    /\ app' = [app EXCEPT ![c].canvasVoteStateRef = voteState,
                          ![c].currentVoteState = voteState]
    /\ UNCHANGED <<serverVars, flushed, inbox, canvas>>

\* a touch is dragged over a vote area (CountdownTimer.tsx 258-275): only
\* the ref is written
appTouchMove(c, voteState) ==
    /\ app' = [app EXCEPT ![c].canvasVoteStateRef = voteState]
    /\ UNCHANGED <<serverVars, flushed, inbox, canvas>>

\* the timer effect is run again when one of allSelectedStatements,
\* activeStatementId and currentVoteState has changed (line 198)
timerDepsChanged(before, after) ==
    \/ before.allSelectedStatements # after.allSelectedStatements
    \/ before.activeStatementId # after.activeStatementId
    \/ before.currentVoteState # after.currentVoteState

\* React renders App and commits: the state differs from what was rendered
\* in a dependency of the effects (line 170)
appRender(c) ==
    /\ ~app[c].effects
    /\ closureOf(app[c]) # app[c].rendered
    /\ app' = [app EXCEPT ![c].rendered = closureOf(app[c]),
                          ![c].effects = TRUE,
                          ![c].resubscribe =
                              timerDepsChanged(app[c].rendered, closureOf(app[c]))]
    /\ UNCHANGED <<serverVars, flushed, inbox, canvas>>

\* the effects of the last commit: the cleanup of the timer effect if it
\* runs again (clearInterval, line 197), the effect of lines 154-170, and
\* the timer effect's setInterval with the closure of the commit
appEffects(c) ==
    /\ app[c].effects
    /\ LET updated == activeStatementUpdate(app[c], app[c].rendered, ownUserId(c), now)
       IN  app' = [app EXCEPT ![c] =
                      [updated EXCEPT !.effects = FALSE,
                                      !.resubscribe = FALSE,
                                      !.timer = IF app[c].resubscribe
                                                THEN [closure |-> app[c].rendered,
                                                      due |-> now + TimerPeriod]
                                                ELSE @]]
    /\ UNCHANGED <<serverVars, flushed, inbox, canvas>>

\* the interval callback, lines 176-195, with the closure it was created in
appTimer(c) ==
    /\ now >= app[c].timer.due
    /\ LET ticked == [app[c] EXCEPT !.currentTime = now,
                                    !.timer.due = now + TimerPeriod]
       IN  app' = [app EXCEPT ![c] =
                      activeStatementUpdate(ticked, app[c].timer.closure,
                                            ownUserId(c), now)]
    /\ UNCHANGED <<serverVars, flushed, inbox, canvas>>

(***************************************************************************)
(* Spec: the queue scheduler and the connections it fans out to.           *)
(***************************************************************************)
Next ==
    \/ \E d \in ClockSteps : now + d <= MaxTime /\ advanceClock(d)
    \/ \E c \in Conns : onConnect(c)
    \/ \E c \in Conns : closeConnection(c)
    \/ \E c \in Conns, s \in StatementIds :
          Len(allSelectedStatements) < MaxQueue /\ queueStatement(c, s)
    \/ \E c \in Conns : clearQueue(c)

Spec == Init /\ [][Next]_vars

(***************************************************************************)
(* DeriveSpec: the queue functions on arbitrary queues.  The room starts   *)
(* with any queue of at most MaxInitQueue items over InitTimes, at any     *)
(* clock reading, with both connections open.                              *)
(***************************************************************************)
MaxInitQueue == 2
InitTimes == {0, 5000, 10000, 15000}
InitItems == {QueueItem(s, t) : s \in StatementIds, t \in InitTimes}
InitQueues == UNION {[1..n -> InitItems] : n \in 0..MaxInitQueue}

DeriveInit ==
    /\ now \in InitTimes
    /\ connections = Conns
    /\ activeStatementId = DefaultStatementId
    /\ allSelectedStatements \in InitQueues
    /\ votes = <<>>
    /\ ghostCursorsEnabled = FALSE
    /\ ghostCursors = <<>>
    /\ ghostCursorInterval = 0
    /\ timers = {}
    /\ lastActiveStatementId = DefaultStatementId
    /\ sent = <<>>
    /\ request = NoRequest
    /\ response = NoResponse
    /\ op = [type |-> "init", at |-> now, repeat |-> FALSE]
    /\ statementsPool = <<>>
    /\ fetches = <<>>
    /\ flushed = FALSE
    /\ inbox = [c \in Conns |-> <<>>]
    /\ app = [c \in Conns |-> NewApp]
    /\ canvas = [c \in Conns |-> NewCanvas]

DeriveNext ==
    \/ \E d \in ClockSteps : now + d <= MaxTime /\ advanceClock(d)
    \/ \E s \in StatementIds :
          Len(allSelectedStatements) < MaxQueue /\ queueStatement("c1", s)
    \/ clearQueue("c1")

DeriveSpec == DeriveInit /\ [][DeriveNext]_vars

(***************************************************************************)
(* LedgerSpec: the HTTP surface of the vote ledger.                        *)
(***************************************************************************)
LedgerNext ==
    \/ \E d \in ClockSteps : now + d <= MaxTime /\ advanceClock(d)
    \/ \E req \in Requests :
          (Len(votes) < MaxVotes \/ ~isVotePost(req)) /\ onRequest(req)

LedgerSpec == Init /\ [][LedgerNext]_vars

(***************************************************************************)
(* RoomSpec: every handler of the room on narrow inputs, so that each      *)
(* handler runs in states where the other components are populated.        *)
(***************************************************************************)
MaxRoomQueue == 2
MaxRoomVotes == 1
RoomStatementIds == {EndVotingId, 5}
RoomRequests ==
    { Request("POST", VotePath, Body("object", Str("u1"), Num(5), Num(1), Num(7))),
      Request("DELETE", VotesPath, NoBody) }

RoomNext ==
    \/ now + QueueDelay <= MaxTime /\ advanceClock(QueueDelay)
    \/ \E c \in Conns : onConnect(c)
    \/ \E c \in Conns, s \in RoomStatementIds :
          Len(allSelectedStatements) < MaxRoomQueue /\ queueStatement(c, s)
    \/ \E c \in Conns : clearQueue(c)
    \/ \E c \in Conns, e \in BOOLEAN : setGhostCursorsEnabled(c, e, 1)
    \/ \E tm \in timers : tick(tm, 1)
    \/ \E req \in RoomRequests :
          (Len(votes) < MaxRoomVotes \/ ~isVotePost(req)) /\ onRequest(req)

RoomSpec == Init /\ [][RoomNext]_vars

(***************************************************************************)
(* SubmitSpec: every request of the ledger's HTTP surface, offered while   *)
(* the queue holds an item and the simulator runs and ticks.               *)
(***************************************************************************)
MaxSubmitTime == 100

\* the requests of Requests, the valid records among them with a timestamp
SubmitRequests ==
    {req \in Requests : req.body \in ValidBodies => req.body.timestamp = Num(7)}

SubmitNext ==
    \/ now + TickPeriod <= MaxSubmitTime /\ advanceClock(TickPeriod)
    \/ onConnect("c1")
    \/ Len(allSelectedStatements) < 1 /\ queueStatement("c1", 5)
    \/ ~ghostCursorsEnabled /\ setGhostCursorsEnabled("c1", TRUE, 1)
    \/ \E tm \in timers : tick(tm, 1)
    \/ \E req \in SubmitRequests :
          (Len(votes) < MaxVotes \/ ~isVotePost(req)) /\ onRequest(req)

SubmitSpec == Init /\ [][SubmitNext]_vars

(***************************************************************************)
(* SimSpec: the simulator on the tick clock.  While the simulation runs    *)
(* the clock moves by one tick period, or by SimLateStep at a multiple of  *)
(* it (a late tick), and a due tick runs before the clock moves again.     *)
(* Before the simulation is enabled the clock moves by SimLateStep, and an *)
(* operator may queue a statement.                                         *)
(***************************************************************************)
MaxSimStart == 5000
MaxSimTime == 15000
SimLateStep == QueueDelay \div 2

noTickDue == \A tm \in timers : now < tm.due

SimNext ==
    \/ /\ ghostCursorsEnabled /\ noTickDue
       /\ now + TickPeriod <= MaxSimTime
       /\ advanceClock(TickPeriod)
    \/ /\ noTickDue /\ now % SimLateStep = 0
       /\ now + SimLateStep <= (IF ghostCursorsEnabled THEN MaxSimTime ELSE MaxSimStart)
       /\ advanceClock(SimLateStep)
    \/ onConnect("c1")
    \/ /\ ~ghostCursorsEnabled /\ Len(allSelectedStatements) < 1
       /\ queueStatement("c1", 5)
    \/ \E seed \in Seeds : ~ghostCursorsEnabled /\ setGhostCursorsEnabled("c1", TRUE, seed)
    \/ \E tm \in timers, seed \in Seeds : tick(tm, seed)

SimSpec == Init /\ [][SimNext]_vars

(***************************************************************************)
(* RetargetSpec: the simulator beside a queue whose items become active a  *)
(* few ticks apart.  The room starts with any queue of at most             *)
(* MaxRetargetQueue items over RetargetTimes, one connection open; the     *)
(* simulation is enabled at once and a due tick runs before the clock      *)
(* moves again.                                                            *)
(***************************************************************************)
MaxRetargetQueue == 2
MaxRetargetTime == 1500
RetargetTimes == {0, 3 * TickPeriod, 9 * TickPeriod}
RetargetItems == {QueueItem(s, t) : s \in {5, EndVotingId}, t \in RetargetTimes}
RetargetQueues == UNION {[1..n -> RetargetItems] : n \in 0..MaxRetargetQueue}

RetargetInit ==
    /\ now = 0
    /\ connections = {"c1"}
    /\ activeStatementId = DefaultStatementId
    /\ allSelectedStatements \in RetargetQueues
    /\ votes = <<>>
    /\ ghostCursorsEnabled = FALSE
    /\ ghostCursors = <<>>
    /\ ghostCursorInterval = 0
    /\ timers = {}
    /\ lastActiveStatementId = DefaultStatementId
    /\ sent = <<>>
    /\ request = NoRequest
    /\ response = NoResponse
    /\ op = [type |-> "init", at |-> 0, repeat |-> FALSE]
    /\ statementsPool = <<>>
    /\ fetches = <<>>
    /\ flushed = FALSE
    /\ inbox = [c \in Conns |-> <<>>]
    /\ app = [c \in Conns |-> NewApp]
    /\ canvas = [c \in Conns |-> NewCanvas]

RetargetNext ==
    \/ /\ ghostCursorsEnabled /\ noTickDue
       /\ now + TickPeriod <= MaxRetargetTime
       /\ advanceClock(TickPeriod)
    \/ \E seed \in Seeds : ~ghostCursorsEnabled /\ setGhostCursorsEnabled("c1", TRUE, seed)
    \/ \E tm \in timers, seed \in Seeds : tick(tm, seed)

RetargetSpec == RetargetInit /\ [][RetargetNext]_vars

(***************************************************************************)
(* PoolSpec: refreshes of the statements pool from either connection, by   *)
(* json and by conversationId, with at most MaxFetches fetches awaited at  *)
(* a time, settling in any order and in any of the ways a fetch can end.   *)
(***************************************************************************)
MaxFetches == 2

PoolJsons ==
    { NoJson,
      Json("object", <<>>),
      Json("array", <<>>),
      Json("array", << Item("object", "first", "", 5, 0) >>),
      Json("array", << Item("object", "", "second", 0, 7) >>),
      Json("array", << Item("object", "first", "", 5, 0), Item("null", "", "", 0, 0) >>) }

PoolMessages ==
    { PoolMessage("json", "", "", json) : json \in PoolJsons }
    \cup { PoolMessage("conversation", "conv", "", NoJson),
           PoolMessage("conversationAndJson", "conv", "http://localhost",
                       Json("array", << Item("object", "first", "", 5, 0) >>)) }

FetchResults ==
    { FetchResult("networkError", 0, <<>>),
      FetchResult("notOk", 500, <<>>),
      FetchResult("badJson", 200, <<>>),
      FetchResult("notArray", 200, <<>>),
      FetchResult("array", 200, <<>>),
      FetchResult("array", 200, << Statement("third", 9, "2024") >>) }

PoolNext ==
    \/ now + QueueDelay <= MaxTime /\ advanceClock(QueueDelay)
    \/ \E c \in Conns : onConnect(c)
    \/ \E c \in Conns : closeConnection(c)
    \/ \E c \in Conns, m \in PoolMessages :
          /\ m.conversationId # "" => Len(fetches) < MaxFetches
          /\ onMessage(c, m, 1)
    \/ \E i \in DOMAIN fetches, result \in FetchResults :
          updateStatementsPoolResumed(i, result)

PoolSpec == Init /\ [][PoolNext]_vars

(***************************************************************************)
(* ApproachSpec: the simulation enabled once at time 0, possibly with one  *)
(* statement queued, and then only the clock and the interval timer: the   *)
(* clock moves by a tick period when no tick is due.  ApproachLiveSpec     *)
(* adds that the clock keeps moving and that setInterval keeps running the *)
(* callback that is due.                                                   *)
(***************************************************************************)
MaxApproachTime == 22500

approachClock ==
    /\ ghostCursorsEnabled /\ noTickDue
    /\ now + TickPeriod <= MaxApproachTime
    /\ advanceClock(TickPeriod)

approachTick == \E tm \in timers, seed \in Seeds : tick(tm, seed)

ApproachNext ==
    \/ approachClock
    \/ "c1" \notin connections /\ onConnect("c1")
    \/ /\ ~ghostCursorsEnabled /\ Len(allSelectedStatements) < 1
       /\ queueStatement("c1", 5)
    \/ \E seed \in Seeds : ~ghostCursorsEnabled /\ setGhostCursorsEnabled("c1", TRUE, seed)
    \/ approachTick

ApproachSpec == Init /\ [][ApproachNext]_vars

\* weak fairness of the clock step and of the tick; the latter,
\* WF_vars(approachTick), is written out, a tick being enabled exactly when
\* one is due
ApproachLiveSpec ==
    /\ ApproachSpec
    /\ WF_vars(approachClock)
    /\ ([]<>noTickDue \/ []<><<approachTick>>_vars)

(***************************************************************************)
(* CopySpec: two Apps and the queue.  Either connection may connect,       *)
(* queue a statement and clear the queue; what a handler sent is           *)
(* put into the inboxes before the next handler runs, and is delivered to  *)
(* each App in order, but as late as it may be: up to MaxInbox messages    *)
(* wait in an inbox.                                                       *)
(***************************************************************************)
MaxCopyQueue == 2
MaxCopyTime == 10000
MaxInbox == 2

\* every inbox has room for the message of one more handler
inboxesHaveRoom == \A c \in Conns : Len(inbox[c]) < MaxInbox

CopyNext ==
    \/ flush
    \/ flushed /\ now + QueueDelay <= MaxCopyTime /\ advanceClock(QueueDelay)
    \/ \E c \in Conns : flushed /\ inboxesHaveRoom /\ onConnect(c)
    \/ \E c \in Conns, id \in {5, EndVotingId} :
          /\ flushed /\ inboxesHaveRoom
          /\ Len(allSelectedStatements) < MaxCopyQueue
          /\ queueStatement(c, id)
    \/ \E c \in Conns : flushed /\ inboxesHaveRoom /\ clearQueue(c)
    \/ \E c \in Conns : appOnMessage(c)

CopySpec == Init /\ [][CopyNext]_vars

(***************************************************************************)
(* AppSpec: one participant's App behind connection c1, which also queues  *)
(* the statements.  The mouse and the touch move over the vote areas,      *)
(* messages are delivered, React renders and runs the effects, and the     *)
(* interval callback runs when it is due, in any order; the clock moves by *)
(* AppClockStep when every message has been delivered and React has        *)
(* rendered the state and run the effects.                                 *)
(***************************************************************************)
MaxAppQueue == 2
MaxAppStart == 5000
MaxAppTime == 20000
AppClockStep == QueueDelay \div 2
VoteStates == {"agree", "pass"}

\* React has nothing left to do for the App behind c1
appIdle == ~app["c1"].effects /\ closureOf(app["c1"]) = app["c1"].rendered

AppNext ==
    \/ flush
    \/ /\ quiet /\ appIdle
       /\ now + AppClockStep <= MaxAppTime
       /\ advanceClock(AppClockStep)
    \/ flushed /\ onConnect("c1")
    \/ \E id \in {5, EndVotingId} :
          /\ quiet /\ now <= MaxAppStart
          /\ Len(allSelectedStatements) < MaxAppQueue
          /\ queueStatement("c1", id)
    \/ appOnMessage("c1")
    \/ \E voteState \in VoteStates :
          app["c1"].currentVoteState # voteState /\ appMouseMove("c1", voteState)
    \/ \E voteState \in VoteStates :
          app["c1"].canvasVoteStateRef # voteState /\ appTouchMove("c1", voteState)
    \/ appRender("c1")
    \/ appEffects("c1")
    \/ appTimer("c1")

AppSpec == Init /\ [][AppNext]_vars

(***************************************************************************)
(* CanvasSpec: a Canvas behind connection c1 beside the simulator.  The    *)
(* simulation is enabled, enabled again and disabled during the first      *)
(* MaxCanvasStart milliseconds; every enabling draws fresh cursor ids.     *)
(* Everything is on time: sends are flushed and delivered before anything  *)
(* else happens, and the timeouts and then the tick that are due run       *)
(* before the clock moves on by a tick period.                             *)
(***************************************************************************)
MaxCanvasStart == 200
MaxCanvasTime == 3400

noTimeoutDue == \A c \in Conns : \A timeout \in canvas[c].timeouts : now < timeout.due

\* timeouts fire in the order they were scheduled: by due time, and among
\* those of one tick in the order of the tick's move events
firstDue(c, timeout) ==
    \A other \in canvas[c].timeouts :
        \/ other.due > timeout.due
        \/ other.due = timeout.due /\ other.userId[2] >= timeout.userId[2]

freshSeed(seed) == \A i \in DOMAIN ghostCursors : ghostCursors[i].id[1] # seed

CanvasNext ==
    \/ /\ quiet /\ noTickDue /\ noTimeoutDue
       /\ now + TickPeriod <= MaxCanvasTime
       /\ advanceClock(TickPeriod)
    \/ quiet /\ "c1" \notin connections /\ onConnect("c1")
    \/ \E seed \in Seeds :
          /\ quiet /\ now <= MaxCanvasStart /\ freshSeed(seed)
          /\ setGhostCursorsEnabled("c1", TRUE, seed)
    \/ /\ quiet /\ now <= MaxCanvasStart /\ ghostCursorsEnabled
       /\ setGhostCursorsEnabled("c1", FALSE, 1)
    \/ \E tm \in timers : quiet /\ noTimeoutDue /\ tick(tm, 1)
    \/ flush
    \/ canvasOnMessage("c1")
    \/ \E timeout \in canvas["c1"].timeouts :
          quiet /\ firstDue("c1", timeout) /\ canvasTimeout("c1", timeout)

CanvasSpec == Init /\ [][CanvasNext]_vars

(***************************************************************************)
(* MessageSpec: every kind of inbound message, from either connection,     *)
(* beside a queue, a stored active id and a simulator that change.         *)
(***************************************************************************)
MaxMessageQueue == 1

CursorMessages ==
    { Message("move", "object", TRUE, "move", 0, FALSE),
      Message("positionAndQueueStatement", "object", TRUE, "queueStatement", 5, FALSE),
      Message("positionAndSetGhostCursors", "object", TRUE, "setGhostCursors", 0, TRUE),
      Message("positionOnly", "object", TRUE, "", 0, FALSE) }

MalformedMessages ==
    { Message("notJson", "unparseable", FALSE, "", 0, FALSE),
      Message("number", "primitive", FALSE, "", 0, FALSE),
      Message("null", "null", FALSE, "", 0, FALSE),
      Message("unknownType", "object", FALSE, "bogus", 5, TRUE),
      Message("noType", "object", FALSE, "", 0, FALSE) }

ControlMessages ==
    { Message("setActiveStatement", "object", FALSE, "setActiveStatement", EndVotingId, FALSE),
      Message("queueStatement", "object", FALSE, "queueStatement", 5, FALSE),
      Message("clearQueue", "object", FALSE, "clearQueue", 0, FALSE),
      Message("enable", "object", FALSE, "setGhostCursors", 0, TRUE),
      Message("disable", "object", FALSE, "setGhostCursors", 0, FALSE) }

InboundMessages == CursorMessages \cup MalformedMessages \cup ControlMessages

MessageNext ==
    \/ now + QueueDelay <= MaxTime /\ advanceClock(QueueDelay)
    \/ \E c \in Conns : onConnect(c)
    \/ \E c \in Conns, m \in InboundMessages :
          /\ m.text = "queueStatement" => Len(allSelectedStatements) < MaxMessageQueue
          /\ onMessage(c, m, 1)
    \/ \E tm \in timers : tick(tm, 1)

MessageSpec == Init /\ [][MessageNext]_vars

(***************************************************************************)
(* Vocabulary of the properties.                                           *)
(***************************************************************************)
\* this step is the handler `type` running (advanceClock alone leaves op alone,
\* and it moves the clock)
handled(type) == now' = now /\ op'.type = type

\* the indices of the items of queue that are due at t
pastOf(queue, t) == {i \in DOMAIN queue : queue[i].displayTimestamp <= t}

\* index i holds a greatest displayTimestamp among the indices in S
greatestIn(queue, S, i) ==
    i \in S /\ \A j \in S : queue[j].displayTimestamp <= queue[i].displayTimestamp

lastItem(queue) == queue[Len(queue)]

(***************************************************************************)
(* Properties of the queue scheduler.                                      *)
(***************************************************************************)
\* C1: for every queue and every time now, getCurrentActiveStatementId returns
\* the statementId of an item with the greatest displayTimestamp among the
\* items with displayTimestamp <= now, and the fallback id 1 when there is no
\* such item; on a queue that does not hold the id 1 the result is 1 exactly
\* when no item has displayTimestamp <= now.
C1_ActiveIsLatestPast ==
    LET queue == allSelectedStatements
        past == pastOf(queue, now)
        result == getCurrentActiveStatementId(queue, now)
    IN  /\ past = {} => result = DefaultStatementId
        /\ past # {} => \E i \in past : /\ greatestIn(queue, past, i)
                                        /\ result = queue[i].statementId
        /\ (\A i \in DOMAIN queue : queue[i].statementId # DefaultStatementId)
              => (result = DefaultStatementId <=> past = {})

\* C1 witness: two past items with different timestamps, the later one queued
\* second, and one future item
C1_Witness ==
    /\ Len(allSelectedStatements) = 3
    /\ allSelectedStatements[1].displayTimestamp < allSelectedStatements[2].displayTimestamp
    /\ allSelectedStatements[2].displayTimestamp <= now
    /\ allSelectedStatements[3].displayTimestamp > now
    /\ allSelectedStatements[1].statementId # allSelectedStatements[2].statementId
    /\ getCurrentActiveStatementId(allSelectedStatements, now)
          = allSelectedStatements[2].statementId

\* C2: every item appended by queueStatement handled at time now has
\* displayTimestamp = now when the derived active id at that moment is the
\* sentinel -1, and displayTimestamp = now + 10000 in every other case.
C2_EnqueueTimestamp ==
    [][handled("queueStatement") =>
          /\ Len(allSelectedStatements') = Len(allSelectedStatements) + 1
          /\ lastItem(allSelectedStatements').displayTimestamp =
                IF getCurrentActiveStatementId(allSelectedStatements, now) = 0 - 1
                THEN now
                ELSE now + 10000]_vars

\* C2 witness: an item was just queued on the immediate path, and a delayed
\* sentinel sits before it
C2_Witness ==
    /\ op.type = "queueStatement"
    /\ now = op.at
    /\ Len(allSelectedStatements) >= 2
    /\ lastItem(allSelectedStatements).displayTimestamp = now
    /\ allSelectedStatements[1].statementId = EndVotingId

\* the previous handler queued the sentinel while an ordinary id was active (the
\* sentinel got the delay), and this step is the next queueStatement
afterDelayedSentinel ==
    /\ op.type = "queueStatement"
    /\ Len(allSelectedStatements) > 0
    /\ lastItem(allSelectedStatements).statementId = EndVotingId
    /\ lastItem(allSelectedStatements).displayTimestamp = op.at + QueueDelay
    /\ handled("queueStatement")

\* C3 as stated: after queueStatement(-1) handled while an ordinary id is
\* active, the next queueStatement activates immediately.
C3_Original ==
    [][afterDelayedSentinel =>
          lastItem(allSelectedStatements').displayTimestamp = now]_vars

\* C3 amended: the sentinel queued at t while an ordinary id is active is itself
\* delayed to t + 10000; the next queueStatement activates immediately exactly
\* when the derived active id at its handling time is -1: it does when it is
\* handled at t + 10000 or later and no earlier item shares the sentinel's
\* displayTimestamp, and it gets the 10000 ms delay when it is handled before
\* t + 10000 and the queue holds no other sentinel.
C3_NextEnqueueAfterSentinel ==
    [][afterDelayedSentinel =>
          LET queue == allSelectedStatements
              sentinel == lastItem(queue)
              earlier == 1..(Len(queue) - 1)
              new == lastItem(allSelectedStatements')
          IN  /\ new.displayTimestamp \in {now, now + QueueDelay}
              /\ new.displayTimestamp = now
                    <=> getCurrentActiveStatementId(queue, now) = EndVotingId
              /\ ( /\ now >= sentinel.displayTimestamp
                   /\ \A i \in earlier :
                         queue[i].displayTimestamp < sentinel.displayTimestamp )
                    => new.displayTimestamp = now
              /\ ( /\ now < sentinel.displayTimestamp
                   /\ \A i \in earlier : queue[i].statementId # EndVotingId )
                    => new.displayTimestamp = now + QueueDelay]_vars

\* C3 witness: right after the sentinel an item was queued before the sentinel
\* was due, and it got the delay
C3_Witness ==
    /\ op.type = "queueStatement"
    /\ op.repeat
    /\ Len(allSelectedStatements) = 3
    /\ allSelectedStatements[2].statementId = EndVotingId
    /\ allSelectedStatements[1].statementId = 5
    /\ allSelectedStatements[1].displayTimestamp <= op.at
    /\ allSelectedStatements[2].displayTimestamp > op.at
    /\ allSelectedStatements[3].displayTimestamp = op.at + QueueDelay

\* C4: after clearQueue handled at time now the queue holds no item with
\* displayTimestamp > now; it is exactly one item, one with the greatest
\* displayTimestamp <= now, when such an item existed, and empty otherwise;
\* the new queue is broadcast as queueUpdated to every connection.
C4_ClearKeepsCurrentOnly ==
    [][handled("clearQueue") =>
          LET queue == allSelectedStatements
              past == pastOf(queue, now)
          IN  /\ \A k \in DOMAIN allSelectedStatements' :
                    allSelectedStatements'[k].displayTimestamp <= now
              /\ past = {} => allSelectedStatements' = <<>>
              /\ past # {} =>
                    /\ Len(allSelectedStatements') = 1
                    /\ \E i \in past : /\ greatestIn(queue, past, i)
                                       /\ allSelectedStatements'[1] = queue[i]
              /\ sent' = << [to |-> connections,
                             msg |-> [type |-> "queueUpdated",
                                      allSelectedStatements |-> allSelectedStatements',
                                      currentTime |-> now]] >>]_vars

\* C4 witness: a first clear left one item and told both connections
C4_Witness ==
    /\ op.type = "clearQueue"
    /\ ~op.repeat
    /\ Len(allSelectedStatements) = 1
    /\ Len(sent) = 1
    /\ sent[1].to = Conns
    /\ sent[1].msg.allSelectedStatements = allSelectedStatements

\* C5: the derived active id at now is the same right after clearQueue as right
\* before it.
C5_ClearPreservesActive ==
    [][handled("clearQueue") =>
          getCurrentActiveStatementId(allSelectedStatements', now)
              = getCurrentActiveStatementId(allSelectedStatements, now)]_vars

\* C5 witness: after a clear the surviving item is the active one and is not
\* the fallback id
C5_Witness ==
    /\ op.type = "clearQueue"
    /\ now = op.at
    /\ Len(allSelectedStatements) = 1
    /\ allSelectedStatements[1].statementId = 5
    /\ getCurrentActiveStatementId(allSelectedStatements, now) = 5

\* C6: clearQueue handled right after clearQueue, at the same or a later time,
\* leaves the queue as the first one left it.
C6_ClearIdempotent ==
    [][(op.type = "clearQueue" /\ handled("clearQueue")) =>
          allSelectedStatements' = allSelectedStatements]_vars

\* C6 witness: two clears in a row, the second at a later time, with an item
\* kept
C6_Witness ==
    /\ op.type = "clearQueue"
    /\ op.repeat
    /\ Len(allSelectedStatements) = 1
    /\ op.at > allSelectedStatements[1].displayTimestamp

\* C7: after queueStatement(c) handled at t on an empty queue, with nothing
\* handled since, the derived active id is the fallback 1 at every time in
\* [t, t + 10000) and c at every time >= t + 10000.
C7_FirstItemActivatesAfterDelay ==
    (op.type = "queueStatement" /\ Len(allSelectedStatements) = 1) =>
        LET c == allSelectedStatements[1].statementId
            active == getCurrentActiveStatementId(allSelectedStatements, now)
        IN  /\ now >= op.at
            /\ now < op.at + 10000 => active = 1
            /\ now >= op.at + 10000 => active = c

\* C7 witness: the only item, queued on the empty queue, has become active
C7_Witness ==
    /\ op.type = "queueStatement"
    /\ ~op.repeat
    /\ Len(allSelectedStatements) = 1
    /\ allSelectedStatements[1].statementId = 5
    /\ now = op.at + QueueDelay

\* C8 as stated: every item in the queue with displayTimestamp T is the derived
\* active id at time T.
C8_Original ==
    \A i \in DOMAIN allSelectedStatements :
        allSelectedStatements[i].displayTimestamp = now =>
            getCurrentActiveStatementId(allSelectedStatements, now)
                = allSelectedStatements[i].statementId

(***************************************************************************)
(* Frame of queueStatement.                                                *)
(***************************************************************************)
\* C9: queueStatement appends exactly one item at the end of the queue, leaves
\* every item already queued unchanged, leaves the vote ledger and the
\* simulator state unchanged, and broadcasts queueUpdated with the full
\* post-append queue to every connection, the sender included.
C9_EnqueueFrame ==
    [][handled("queueStatement") =>
          /\ Len(allSelectedStatements') = Len(allSelectedStatements) + 1
          /\ SubSeq(allSelectedStatements', 1, Len(allSelectedStatements))
                = allSelectedStatements
          /\ votes' = votes
          /\ ghostCursorsEnabled' = ghostCursorsEnabled
          /\ ghostCursors' = ghostCursors
          /\ ghostCursorInterval' = ghostCursorInterval
          /\ timers' = timers
          /\ lastActiveStatementId' = lastActiveStatementId
          /\ connections' = connections
          /\ connections # {}
          /\ sent' = << [to |-> connections,
                         msg |-> [type |-> "queueUpdated",
                                  allSelectedStatements |-> allSelectedStatements',
                                  currentTime |-> now]] >>]_vars

\* C9 witness: an item was queued behind another while the ledger held a vote,
\* the simulator ran and had seen a statement change, and both connections
\* were told
C9_Witness ==
    /\ op.type = "queueStatement"
    /\ Len(allSelectedStatements) = 2
    /\ Len(votes) = 1
    /\ ghostCursorsEnabled
    /\ Len(ghostCursors) = GhostCursorCount
    /\ lastActiveStatementId # DefaultStatementId
    /\ Len(sent) = 1
    /\ sent[1].to = Conns

(***************************************************************************)
(* Properties of the vote ledger.                                          *)
(***************************************************************************)
\* C10: every record of the ledger has vote in {-1, 0, 1}; a POST /vote whose
\* vote field is any other value, or not a number, is rejected and adds no
\* record, and GET /votes returns the ledger.
C10_LedgerVotesValid ==
    [][ /\ \A i \in DOMAIN votes' :
              votes'[i].vote.t = "number" /\ votes'[i].vote.n \in {0 - 1, 0, 1}
        /\ ( /\ handled("request")
             /\ request'.method = "POST" /\ request'.path = VotePath
             /\ ~(request'.body.vote.t = "number"
                  /\ request'.body.vote.n \in {0 - 1, 0, 1}) )
              => (response'.status # 200 /\ votes' = votes)
        /\ (handled("request") /\ request'.method = "GET" /\ request'.path = VotesPath)
              => (response'.status = 200 /\ response'.array = votes) ]_vars

\* C10 witness: a vote of 7 was refused while the ledger held a record
C10_Witness ==
    /\ op.type = "request"
    /\ request.method = "POST"
    /\ request.body.vote = Num(7)
    /\ response.status = 400
    /\ Len(votes) = 1

\* the record fails the validation the claims name: userId missing or empty,
\* statementId not a number, or vote not one of -1, 0, 1
failsValidation(body) ==
    /\ body.kind = "object"
    /\ \/ body.userId.t = "undefined"
       \/ body.userId = Str("")
       \/ body.statementId.t # "number"
       \/ ~(body.vote.t = "number" /\ body.vote.n \in {0 - 1, 0, 1})

\* the record passes it
passesValidation(body) ==
    /\ body.kind = "object"
    /\ body.userId.t = "string" /\ body.userId.s # ""
    /\ body.statementId.t = "number"
    /\ body.vote.t = "number" /\ body.vote.n \in {0 - 1, 0, 1}

\* C11: a POST /vote whose record fails validation is answered with status 400
\* and leaves the ledger, the queue and the simulator state as they were; the
\* valid submission handled right after it appends its record to the ledger
\* the invalid one found and reports that ledger's length plus one.
C11_InvalidVoteRejected ==
    [][ /\ ( /\ handled("request")
             /\ request'.method = "POST" /\ request'.path = VotePath
             /\ failsValidation(request'.body) )
              => /\ response'.status = 400
                 /\ votes' = votes
                 /\ allSelectedStatements' = allSelectedStatements
                 /\ activeStatementId' = activeStatementId
                 /\ ghostCursorsEnabled' = ghostCursorsEnabled
                 /\ ghostCursors' = ghostCursors
                 /\ ghostCursorInterval' = ghostCursorInterval
                 /\ timers' = timers
                 /\ lastActiveStatementId' = lastActiveStatementId
        /\ ( /\ op.type = "request" /\ response.status = 400
             /\ handled("request")
             /\ request'.method = "POST" /\ request'.path = VotePath
             /\ passesValidation(request'.body) )
              => /\ response'.status = 200
                 /\ response'.voteCount = Len(votes) + 1
                 /\ Len(votes') = Len(votes) + 1
                 /\ SubSeq(votes', 1, Len(votes)) = votes
                 /\ votes'[Len(votes')].userId = request'.body.userId
                 /\ votes'[Len(votes')].vote = request'.body.vote ]_vars

\* C11 witness: a record with an empty userId was refused with 400 while the
\* ledger held a record, the queue an item and the simulator its cursors
C11_Witness ==
    /\ op.type = "request"
    /\ request.method = "POST"
    /\ request.body.userId = Str("")
    /\ response.status = 400
    /\ Len(votes) = 1
    /\ Len(allSelectedStatements) = 1
    /\ Len(ghostCursors) = GhostCursorCount
    /\ timers # {}

\* C12: the ledger changes only by a valid POST /vote appending one record or
\* by DELETE /votes emptying it; the records already stored keep their value
\* and their place; every valid POST /vote, also one equal to a record already
\* stored, appends its record at the end and reports the new length, so that
\* the k-th valid submission since the last clear reports voteCount = k.
C12_LedgerAppendOnly ==
    [][ /\ votes' # votes =>
              /\ handled("request")
              /\ \/ /\ request'.method = "POST" /\ request'.path = VotePath
                    /\ passesValidation(request'.body)
                    /\ Len(votes') = Len(votes) + 1
                    /\ SubSeq(votes', 1, Len(votes)) = votes
                 \/ /\ request'.method = "DELETE" /\ request'.path = VotesPath
                    /\ votes' = <<>>
        /\ ( /\ handled("request")
             /\ request'.method = "POST" /\ request'.path = VotePath
             /\ passesValidation(request'.body) )
              => /\ Len(votes') = Len(votes) + 1
                 /\ SubSeq(votes', 1, Len(votes)) = votes
                 /\ votes'[Len(votes')].userId = request'.body.userId
                 /\ votes'[Len(votes')].statementId = request'.body.statementId
                 /\ votes'[Len(votes')].vote = request'.body.vote
                 /\ response'.status = 200
                 /\ "voteCount" \in response'.keys
                 /\ response'.voteCount = Len(votes) + 1 ]_vars

\* C12 witness: the same user submitted the same record twice, the ledger holds
\* both and the second response reported 2
C12_Witness ==
    /\ op.type = "request"
    /\ op.repeat
    /\ request.method = "POST"
    /\ Len(votes) = 2
    /\ votes[1] = votes[2]
    /\ response.status = 200
    /\ response.voteCount = 2

\* the numbers a response carries in its JSON body
numbersOf(resp) == IF "voteCount" \in resp.keys THEN {resp.voteCount} ELSE {}

\* C13 as stated: DELETE /votes empties the ledger and its 200 response carries
\* the number of records the ledger held before the clear.
C13_Original ==
    [][(handled("request") /\ request'.method = "DELETE" /\ request'.path = VotesPath)
          => /\ votes' = <<>>
             /\ response'.status = 200
             /\ Len(votes) \in numbersOf(response')]_vars

\* C13 amended: DELETE /votes empties the ledger and its 200 response is the
\* object with the keys success and message, the message "All votes cleared";
\* it carries no number, whatever the ledger held.
C13_ClearAnswersWithMessage ==
    [][(handled("request") /\ request'.method = "DELETE" /\ request'.path = VotesPath)
          => /\ votes' = <<>>
             /\ response'.status = 200
             /\ response'.keys = {"success", "message"}
             /\ response'.message = "All votes cleared"
             /\ numbersOf(response') = {}]_vars

\* C13 witness: the ledger was cleared by a request that followed another
\* request, while the queue held an item
C13_Witness ==
    /\ op.type = "request"
    /\ op.repeat
    /\ request.method = "DELETE"
    /\ request.path = VotesPath
    /\ votes = <<>>
    /\ response.status = 200
    /\ response.message = "All votes cleared"
    /\ Len(allSelectedStatements) = 1

\* C14 as stated: a stored vote keeps the timestamp the request supplied
\* whenever the request supplied one (any number, 0 included); the server
\* writes timestamp = now only when the request carried no timestamp field.
C14_Original ==
    [][( /\ handled("request")
         /\ request'.method = "POST" /\ request'.path = VotePath
         /\ passesValidation(request'.body) )
          => /\ Len(votes') = Len(votes) + 1
             /\ votes'[Len(votes')].timestamp =
                   IF request'.body.timestamp.t = "number"
                   THEN request'.body.timestamp
                   ELSE Num(now)]_vars

\* C15 as stated: a POST /vote whose body is not a JSON object at all
\* (unparseable text, or the JSON null) is answered with status 400 and leaves
\* the ledger unchanged.
C15_Original ==
    [][( /\ handled("request")
         /\ request'.method = "POST" /\ request'.path = VotePath
         /\ request'.body.kind \in {"unparseable", "null"} )
          => /\ response'.status = 400
             /\ votes' = votes]_vars

(***************************************************************************)
(* Properties of the ghost-cursor simulator.                               *)
(***************************************************************************)
\* C16: handling setGhostCursors{enabled: true} leaves exactly 10 ghost cursors,
\* also when the simulation was already enabled; handling
\* setGhostCursors{enabled: false} broadcasts one remove event for each cursor of
\* the population it finds, in the population's order and to every connection,
\* then ghostCursorsChanged{enabled: false} as the last message, and leaves the
\* population empty.
C16_EnableDisablePopulation ==
    [][ /\ handled("enableGhostCursors") =>
              /\ ghostCursorsEnabled'
              /\ Len(ghostCursors') = 10
        /\ handled("disableGhostCursors") =>
              LET N == Len(ghostCursors)
              IN  /\ Len(sent') = N + 1
                  /\ \A i \in 1..N :
                        /\ sent'[i].msg.type = "remove"
                        /\ sent'[i].msg.position.userId = ghostCursors[i].id
                        /\ sent'[i].to = connections
                  /\ sent'[N + 1].msg = [type |-> "ghostCursorsChanged",
                                         enabled |-> FALSE]
                  /\ sent'[N + 1].to = connections
                  /\ ghostCursors' = <<>>
                  /\ ~ghostCursorsEnabled' ]_vars

\* C16 witness: a population of 10 was just disabled: 10 remove events and the
\* change notice were sent, and no cursor is left
C16_Witness ==
    /\ op.type = "disableGhostCursors"
    /\ Len(sent) = GhostCursorCount + 1
    /\ sent[1].msg.type = "remove"
    /\ sent[GhostCursorCount].msg.type = "remove"
    /\ sent[GhostCursorCount + 1].msg.type = "ghostCursorsChanged"
    /\ ghostCursors = <<>>
    /\ lastActiveStatementId # DefaultStatementId

\* the phases of a cursor at time t
waiting(cursor, t) == cursor.isMoving /\ t < cursor.moveStartTime
approaching(cursor, t) == cursor.isMoving /\ t >= cursor.moveStartTime
settling(cursor, t) ==
    ~cursor.isMoving /\ t - cursor.transitionStartTime < cursor.transitionDuration
idling(cursor, t) ==
    ~cursor.isMoving /\ t - cursor.transitionStartTime >= cursor.transitionDuration

onCanvas(v) == 0 <= v /\ v <= 100 * Unit
nearCanvas(v) == 0 - 5 * Unit <= v /\ v <= 105 * Unit

\* C17 as stated: after every tick the stored position (x, y) of every ghost
\* cursor lies within [0,100]x[0,100], in every phase.
C17_Original ==
    [][handled("tick") =>
          \A i \in DOMAIN ghostCursors' :
              onCanvas(ghostCursors'[i].x) /\ onCanvas(ghostCursors'[i].y)]_vars

\* C17 amended: a tick clamps the stored position of a cursor only when it runs
\* the settle or idle step for it: after every tick, a cursor that is not moving
\* and did not end its approach in that tick has its stored position within
\* [0,100]x[0,100]; a cursor waiting for its start delay, in approach, or just
\* arrived keeps an unclamped stored position, within [-5,105]x[-5,105].
C17_StoredPositionClampedAtRest ==
    [][handled("tick") =>
          \A i \in DOMAIN ghostCursors' :
              LET cursor == ghostCursors'[i]
              IN  /\ nearCanvas(cursor.x) /\ nearCanvas(cursor.y)
                  /\ (~cursor.isMoving /\ cursor.transitionStartTime # now)
                        => (onCanvas(cursor.x) /\ onCanvas(cursor.y))]_vars

\* C17 witness: after a tick one cursor is in approach and still off the canvas
\* while another, which arrived in an earlier tick, is settling
C17_Witness ==
    /\ op.type = "tick"
    /\ now = op.at
    /\ \E i \in DOMAIN ghostCursors :
          /\ approaching(ghostCursors[i], now)
          /\ ~(onCanvas(ghostCursors[i].x) /\ onCanvas(ghostCursors[i].y))
    /\ \E i \in DOMAIN ghostCursors :
          /\ settling(ghostCursors[i], now)
          /\ ghostCursors[i].transitionStartTime # now

\* C18: every move event the simulator broadcasts carries x and y within
\* [0,100], whatever the stored position and the phase of its cursor.
C18_MoveEventsOnCanvas ==
    \A i \in DOMAIN sent :
        sent[i].msg.type = "move" =>
            /\ onCanvas(sent[i].msg.position.x)
            /\ onCanvas(sent[i].msg.position.y)

\* C18 witness: a tick reported a cursor whose stored x is beyond the right
\* edge at x = 100, and one whose stored y is above the top edge at y = 0
C18_Witness ==
    /\ op.type = "tick"
    /\ Len(sent) = Len(ghostCursors)
    /\ \E i \in DOMAIN ghostCursors :
          /\ ghostCursors[i].x > 100 * Unit
          /\ sent[i].msg.type = "move"
          /\ sent[i].msg.position.x = 100 * Unit
    /\ \E i \in DOMAIN ghostCursors :
          /\ ghostCursors[i].y < 0
          /\ sent[i].msg.position.y = 0

\* C19: while the simulation is enabled every tick broadcasts exactly one move
\* event for every ghost cursor, to every connection and in the population's
\* order, whatever the cursor's phase: waiting for its start delay, in
\* approach, settling or idle.
C19_TickReportsEveryCursor ==
    [][(handled("tick") /\ ghostCursorsEnabled) =>
          /\ Len(ghostCursors') = 10
          /\ Len(sent') = Len(ghostCursors')
          /\ \A i \in DOMAIN ghostCursors' :
                /\ sent'[i].msg.type = "move"
                /\ sent'[i].msg.position.userId = ghostCursors'[i].id
                /\ sent'[i].msg.position.timestamp = now
                /\ sent'[i].to = connections]_vars

\* C19 witness: a tick reported all 10 cursors while one was idle and another
\* one in approach
C19_Witness ==
    /\ op.type = "tick"
    /\ now = op.at
    /\ Len(sent) = GhostCursorCount
    /\ \A i \in DOMAIN sent : sent[i].msg.type = "move"
    /\ \E i \in DOMAIN ghostCursors : idling(ghostCursors[i], now)
    /\ \E i \in DOMAIN ghostCursors : approaching(ghostCursors[i], now)

\* C20: after any sequence of setGhostCursors messages at most one tick timer
\* is armed: it is the one the server holds, armed exactly while the simulation
\* is enabled and due no later than one tick period from now; a tick sends at
\* most one move event per ghost cursor and leaves the next one a full period
\* away.
C20_SingleTickTimer ==
    [][ /\ Cardinality(timers') <= 1
        /\ \A tm \in timers' : tm.id = ghostCursorInterval' /\ tm.due <= now' + 100
        /\ (timers' # {}) <=> ghostCursorsEnabled'
        /\ handled("tick") =>
              /\ \A tm \in timers' : tm.due = now + 100
              /\ \A i, j \in DOMAIN sent' :
                    (sent'[i].msg.position.userId = sent'[j].msg.position.userId) => i = j
        /\ (handled("enableGhostCursors") \/ handled("disableGhostCursors")) =>
              \A tm \in timers' : tm.due = now + 100 ]_vars

\* C20 witness: the simulation was enabled twice in a row and one timer is
\* armed
C20_Witness ==
    /\ op.type = "enableGhostCursors"
    /\ op.repeat
    /\ Cardinality(timers) = 1
    /\ ghostCursorInterval # 0
    /\ lastActiveStatementId # DefaultStatementId

(***************************************************************************)
(* Properties of onMessage.                                                *)
(***************************************************************************)
\* the room state a message may change: queue, ledger, stored active id,
\* simulator and connections
roomState == <<allSelectedStatements, votes, activeStatementId, ghostCursorsEnabled,
               ghostCursors, ghostCursorInterval, timers, lastActiveStatementId,
               connections>>

\* C22: an inbound message that parses to an object with a position key is
\* re-broadcast as the original string to every connection except its sender,
\* in one broadcast that does not include the sender, and changes no room
\* state, whatever its type field says.
C22_CursorRelayedVerbatim ==
    [][\A c \in Conns, m \in CursorMessages :
          (c \in connections /\ onMessage(c, m, 1)) =>
              /\ sent' = << [to |-> connections \ {c},
                             msg |-> [type |-> "verbatim", text |-> m.text]] >>
              /\ roomState' = roomState]_vars

\* C22 witness: a message with a position key and the type queueStatement was
\* relayed to the other connection while the queue was empty and the simulator
\* was running
C22_Witness ==
    /\ op.type = "cursor"
    /\ Len(sent) = 1
    /\ sent[1].msg = [type |-> "verbatim", text |-> "positionAndQueueStatement"]
    /\ Cardinality(sent[1].to) = 1
    /\ connections = Conns
    /\ allSelectedStatements = <<>>
    /\ ghostCursorsEnabled

\* C23: an inbound message that is not parseable JSON, that parses to a value
\* that is not an object, or that has no position key and an unknown type is
\* dropped: no room state changes, nothing is sent, the connection stays in
\* the room, and the queueStatement the same room handles next is handled as
\* usual.
C23_MalformedMessageDropped ==
    [][ /\ \A c \in Conns, m \in MalformedMessages :
              (c \in connections /\ onMessage(c, m, 1)) =>
                  /\ sent' = <<>>
                  /\ roomState' = roomState
        /\ ( /\ op.type \in {"parseError", "typeError", "noBranch"}
             /\ handled("queueStatement") )
              => /\ Len(allSelectedStatements') = Len(allSelectedStatements) + 1
                 /\ lastItem(allSelectedStatements').statementId = 5
                 /\ Len(sent') = 1
                 /\ sent'[1].to = connections
                 /\ sent'[1].msg.type = "queueUpdated" ]_vars

\* C23 witness: a message of unknown type was dropped while the queue held an
\* item, the simulator ran and both connections were open
C23_Witness ==
    /\ op.type = "noBranch"
    /\ sent = <<>>
    /\ connections = Conns
    /\ Len(allSelectedStatements) = 1
    /\ ghostCursorsEnabled
    /\ Len(ghostCursors) = GhostCursorCount

\* C24 as stated: the activeStatementId of the connected payload equals the
\* active id derived from the queue at connect time.
C24_Original ==
    [][handled("connect") =>
          sent'[1].msg.activeStatementId
              = getCurrentActiveStatementId(allSelectedStatements, now)]_vars

\* C25: setActiveStatement changes neither the queue nor the simulator; what
\* queueStatement, clearQueue and the tick's change detection do is decided by
\* the queue and the clock alone, whatever the stored activeStatementId is:
\* the new item's displayTimestamp follows the derived id, the cleared queue is
\* the latest past item, lastActiveStatementId follows the derived id; and
\* queueStatement and clearQueue leave both stored ids alone.
C25_StoredIdsNotAuthoritative ==
    [][ /\ handled("setActiveStatement") =>
              /\ allSelectedStatements' = allSelectedStatements
              /\ simVars' = simVars
        /\ handled("queueStatement") =>
              /\ Len(allSelectedStatements') = Len(allSelectedStatements) + 1
              /\ lastItem(allSelectedStatements').displayTimestamp =
                    IF getCurrentActiveStatementId(allSelectedStatements, now) = 0 - 1
                    THEN now
                    ELSE now + 10000
              /\ activeStatementId' = activeStatementId
              /\ lastActiveStatementId' = lastActiveStatementId
        /\ handled("clearQueue") =>
              /\ Len(allSelectedStatements') <= 1
              /\ getCurrentActiveStatementId(allSelectedStatements', now)
                    = getCurrentActiveStatementId(allSelectedStatements, now)
              /\ activeStatementId' = activeStatementId
              /\ lastActiveStatementId' = lastActiveStatementId
        /\ (handled("tick") /\ ghostCursorsEnabled) =>
              /\ lastActiveStatementId'
                    = getCurrentActiveStatementId(allSelectedStatements, now)
              /\ activeStatementId' = activeStatementId
              /\ allSelectedStatements' = allSelectedStatements ]_vars

\* C25 witness: an item was queued with the delay while the stored active id
\* was the sentinel -1 and the derived one was not
C25_Witness ==
    /\ op.type = "queueStatement"
    /\ now = op.at
    /\ activeStatementId = EndVotingId
    /\ Len(allSelectedStatements) = 1
    /\ allSelectedStatements[1].displayTimestamp = now + QueueDelay
    /\ ghostCursorsEnabled

\* C21: handling setGhostCursors{enabled: false} disarms the tick timer and
\* empties the population; from then until the next enable no tick runs, no
\* move event is sent, and neither the ghost cursors nor
\* lastActiveStatementId change, so that no move event follows the remove
\* event of a ghost id.
C21_NoTickAfterDisable ==
    [][ /\ handled("disableGhostCursors") =>
              /\ timers' = {}
              /\ ghostCursorInterval' = 0
              /\ ghostCursors' = <<>>
        /\ ~ghostCursorsEnabled => ~handled("tick")
        /\ (~ghostCursorsEnabled /\ ~handled("enableGhostCursors")) =>
              /\ ghostCursors' = ghostCursors
              /\ lastActiveStatementId' = lastActiveStatementId
              /\ timers' = timers
              /\ \A i \in DOMAIN sent' : sent'[i].msg.type # "move" ]_vars

\* C21 witness: a population of 10 was disabled, the clock has moved on by
\* more than a tick period and the derived active id has changed since the
\* simulator last looked, yet nothing has run
C21_Witness ==
    /\ op.type = "disableGhostCursors"
    /\ Len(sent) = GhostCursorCount + 1
    /\ now >= op.at + QueueDelay
    /\ ~ghostCursorsEnabled
    /\ timers = {}
    /\ getCurrentActiveStatementId(allSelectedStatements, now) # lastActiveStatementId

\* this tick finds the derived active id changed and retargets the cursors
retargets ==
    /\ ghostCursorsEnabled
    /\ getCurrentActiveStatementId(allSelectedStatements, now) # lastActiveStatementId

\* the cursor is within 2 canvas units of its target
nearTarget(cursor) ==
    LET dx == cursor.targetX - cursor.x
        dy == cursor.targetY - cursor.y
    IN  dx * dx + dy * dy < (2 * Unit) * (2 * Unit)

\* C27: in a tick that does not retarget, a cursor in approach whose start
\* time has come leaves approach for settle exactly when, after its position
\* update, its distance to the target is < 2 or elapsed / moveDuration >= 1; a
\* cursor whose start time has not yet come is left as it is, in approach; a
\* cursor in settle or idle stays out of approach.
C27_ApproachEndsAtTarget ==
    [][(handled("tick") /\ ghostCursorsEnabled /\ ~retargets) =>
          \A i \in DOMAIN ghostCursors :
              LET before == ghostCursors[i]
                  after == ghostCursors'[i]
              IN  /\ (before.isMoving /\ now < before.moveStartTime) =>
                        after = before
                  /\ (before.isMoving /\ now >= before.moveStartTime) =>
                        /\ ~after.isMoving <=>
                              \/ nearTarget(after)
                              \/ now - before.moveStartTime >= before.moveDuration
                        /\ ~after.isMoving => after.transitionStartTime = now
                  /\ ~before.isMoving => ~after.isMoving]_vars

\* C27 witness: in one tick a cursor has just arrived by coming within 2 units
\* of its target before its moveDuration was over, while another one is still
\* on its way
C27_Witness ==
    /\ op.type = "tick"
    /\ now = op.at
    /\ \E i \in DOMAIN ghostCursors :
          /\ ~ghostCursors[i].isMoving
          /\ ghostCursors[i].transitionStartTime = now
          /\ now - ghostCursors[i].moveStartTime < ghostCursors[i].moveDuration
    /\ \E i \in DOMAIN ghostCursors : approaching(ghostCursors[i], now)

\* the positions of the fixed vote-area set
voteAreaSet == {voteAreas[k] : k \in DOMAIN voteAreas}

\* C26: on every tick while the simulation is enabled: if the derived active
\* id differs from lastActiveStatementId, every ghost cursor gets a target
\* from the fixed vote-area set, is in approach with moveDuration >= 1000 ms
\* and a start time not before the tick, and lastActiveStatementId becomes the
\* derived id; if it does not differ, no cursor's target, moveStartTime or
\* moveDuration changes, no cursor enters approach, and lastActiveStatementId
\* stays.
C26_RetargetOnChange ==
    [][(handled("tick") /\ ghostCursorsEnabled) =>
          LET derivedId == getCurrentActiveStatementId(allSelectedStatements, now)
          IN  IF derivedId # lastActiveStatementId
              THEN /\ lastActiveStatementId' = derivedId
                   /\ Len(ghostCursors') = Len(ghostCursors)
                   /\ \A i \in DOMAIN ghostCursors' :
                         LET after == ghostCursors'[i]
                         IN  /\ [x |-> after.targetX, y |-> after.targetY]
                                    \in voteAreaSet
                             /\ after.isMoving
                             /\ after.moveDuration >= 1000
                             /\ after.moveStartTime >= now
              ELSE /\ lastActiveStatementId' = lastActiveStatementId
                   /\ Len(ghostCursors') = Len(ghostCursors)
                   /\ \A i \in DOMAIN ghostCursors :
                         LET before == ghostCursors[i]
                             after == ghostCursors'[i]
                         IN  /\ after.targetX = before.targetX
                             /\ after.targetY = before.targetY
                             /\ after.moveStartTime = before.moveStartTime
                             /\ after.moveDuration = before.moveDuration
                             /\ after.isMoving => before.isMoving]_vars

\* C26 witness: a tick has just retargeted the cursors for an item that became
\* active at this very time, with the next item less than a second away, so
\* that every cursor's move duration is the 1000 ms minimum
C26_Witness ==
    /\ op.type = "tick"
    /\ now = op.at
    /\ ghostCursorsEnabled
    /\ lastActiveStatementId # DefaultStatementId
    /\ \E k \in DOMAIN allSelectedStatements :
          /\ allSelectedStatements[k].displayTimestamp = now
          /\ allSelectedStatements[k].statementId = lastActiveStatementId
    /\ \A k \in DOMAIN allSelectedStatements :
          allSelectedStatements[k].displayTimestamp < now =>
              allSelectedStatements[k].statementId # lastActiveStatementId
    /\ \E k \in DOMAIN allSelectedStatements :
          /\ allSelectedStatements[k].displayTimestamp > now
          /\ allSelectedStatements[k].displayTimestamp - now < 1000
    /\ Len(ghostCursors) = GhostCursorCount
    /\ \A i \in DOMAIN ghostCursors :
          /\ ghostCursors[i].isMoving
          /\ ghostCursors[i].moveDuration = 1000

\* the items of the queue that are due at t, in queue order
RECURSIVE dueItems(_, _)
dueItems(queue, t) ==
    IF queue = <<>> THEN <<>>
    ELSE IF Head(queue).displayTimestamp > t
         THEN dueItems(Tail(queue), t)
         ELSE <<Head(queue)>> \o dueItems(Tail(queue), t)

\* the queues the room's queue is compared with
ComparedItems == {QueueItem(s, t) : s \in {5, EndVotingId}, t \in InitTimes}
ComparedQueues == UNION {[1..n -> ComparedItems] : n \in 0..2}

\* C29: the derived active id at time now depends only on the queue items
\* with displayTimestamp <= now: every queue that holds the same such items
\* in the same order gives the same id at now, whatever items with a later
\* displayTimestamp the two queues hold, and the room's queue gives the id of
\* its due items alone.
C29_DerivedIdDependsOnDueItems ==
    /\ getCurrentActiveStatementId(allSelectedStatements, now)
           = getCurrentActiveStatementId(dueItems(allSelectedStatements, now), now)
    /\ \A other \in ComparedQueues :
          dueItems(other, now) = dueItems(allSelectedStatements, now) =>
              getCurrentActiveStatementId(other, now)
                 = getCurrentActiveStatementId(allSelectedStatements, now)

\* C29 witness: the room's queue holds a due item and a later item with another
\* id, and a compared queue with the same due items holds a different later
\* item
C29_Witness ==
    /\ \E i, j \in DOMAIN allSelectedStatements :
          /\ allSelectedStatements[i].displayTimestamp <= now
          /\ allSelectedStatements[j].displayTimestamp > now
          /\ allSelectedStatements[i].statementId # allSelectedStatements[j].statementId
    /\ \E other \in ComparedQueues :
          /\ dueItems(other, now) = dueItems(allSelectedStatements, now)
          /\ \E k \in DOMAIN other :
                /\ other[k].displayTimestamp > now
                /\ \A j \in DOMAIN allSelectedStatements :
                      other[k] # allSelectedStatements[j]

\* C30 as stated: right after queueStatement(c) has been handled at time now
\* while the derived active id was the sentinel -1, the derived active id at
\* that same now is c.
C30_Original ==
    [][(handled("queueStatement")
           /\ getCurrentActiveStatementId(allSelectedStatements, now) = EndVotingId) =>
          getCurrentActiveStatementId(allSelectedStatements', now)
             = lastItem(allSelectedStatements').statementId]_vars

\* the refresh asked for by message m fails within the handler: json that is
\* no array, or an array with a null item
failsAtOnce(m) ==
    /\ m.conversationId = ""
    /\ m.json.kind # "absent"
    /\ \/ m.json.kind # "array"
       \/ \E k \in DOMAIN m.json.items : m.json.items[k].kind = "null"

\* the refresh asked for by message m succeeds within the handler
succeedsAtOnce(m) ==
    /\ m.conversationId = ""
    /\ m.json.kind = "array"
    /\ \A k \in DOMAIN m.json.items : m.json.items[k].kind # "null"

\* the step keeps the pool and broadcasts statementsPoolError to every connection
poolKeptAndErrorBroadcast ==
    /\ statementsPool' = statementsPool
    /\ Len(sent') = 1
    /\ sent'[1].to = connections
    /\ sent'[1].msg.type = "statementsPoolError"

\* the step is a handler's and broadcasts statementsPoolUpdated
updatedBroadcast ==
    /\ now' = now
    /\ \E k \in DOMAIN sent' : sent'[k].msg.type = "statementsPoolUpdated"

\* C28: when an updateStatementsPool refresh fails (the fetch rejects, the
\* response is not OK or cannot be parsed, or the data is not an array of
\* objects), statementsPool keeps its value and statementsPoolError is
\* broadcast to every connection; statementsPool changes, and
\* statementsPoolUpdated is broadcast, only in a step that is a succeeding
\* refresh, which broadcasts the new pool to every connection.
C28_PoolReplacedOnlyOnSuccess ==
    [][/\ \A c \in connections, m \in PoolMessages :
             (failsAtOnce(m) /\ onMessage(c, m, 1)) => poolKeptAndErrorBroadcast
       /\ \A i \in DOMAIN fetches, result \in FetchResults :
             (result.kind # "array" /\ updateStatementsPoolResumed(i, result)) =>
                 poolKeptAndErrorBroadcast
       /\ (statementsPool' # statementsPool \/ updatedBroadcast) =>
             /\ \/ \E c \in connections, m \in PoolMessages :
                      succeedsAtOnce(m) /\ onMessage(c, m, 1)
                \/ \E i \in DOMAIN fetches, result \in FetchResults :
                      result.kind = "array" /\ updateStatementsPoolResumed(i, result)
             /\ sent' = << [to |-> connections,
                            msg |-> [type |-> "statementsPoolUpdated",
                                     statementsPool |-> statementsPool',
                                     currentTime |-> now]] >>]_vars

\* C28 witness: a fetch has just failed while the pool held statements and
\* another fetch was still awaited; the pool is still there and both
\* connections were sent statementsPoolError
C28_Witness ==
    /\ op.type = "fetchSettled"
    /\ now = op.at
    /\ statementsPool # <<>>
    /\ Len(fetches) >= 1
    /\ connections = Conns
    /\ Len(sent) = 1
    /\ sent[1].to = Conns
    /\ sent[1].msg.type = "statementsPoolError"

\* the index of the item appended earliest among those that share the
\* greatest displayTimestamp <= t
earliestOfGreatest(queue, t) ==
    CHOOSE i \in pastOf(queue, t) :
        /\ greatestIn(queue, pastOf(queue, t), i)
        /\ \A j \in pastOf(queue, t) : greatestIn(queue, pastOf(queue, t), j) => i <= j

\* C31: ties are broken by insertion order: when queue items share the
\* greatest displayTimestamp <= now, getCurrentActiveStatementId returns the
\* statementId of the one appended earliest, and clearQueue keeps that very
\* item, so that the derived active id is the same before and after the clear.
C31_TiesGoToEarliest ==
    [][pastOf(allSelectedStatements, now) # {} =>
          LET current == allSelectedStatements[earliestOfGreatest(allSelectedStatements, now)]
          IN  /\ getCurrentActiveStatementId(allSelectedStatements, now)
                    = current.statementId
              /\ handled("clearQueue") =>
                    /\ allSelectedStatements' = <<current>>
                    /\ getCurrentActiveStatementId(allSelectedStatements', now)
                          = current.statementId]_vars

\* C31 witness: after an enqueue, two items with different ids share the
\* greatest displayTimestamp that is due, and the derived id is the earlier one's
C31_Witness ==
    /\ op.type = "queueStatement"
    /\ \E i, j \in pastOf(allSelectedStatements, now) :
          /\ i < j
          /\ greatestIn(allSelectedStatements, pastOf(allSelectedStatements, now), i)
          /\ greatestIn(allSelectedStatements, pastOf(allSelectedStatements, now), j)
          /\ allSelectedStatements[i].statementId # allSelectedStatements[j].statementId
          /\ getCurrentActiveStatementId(allSelectedStatements, now)
                = allSelectedStatements[i].statementId

\* the tick timer is armed: the runtime holds exactly one interval timer, the
\* one ghostCursorInterval names
tickTimerArmed ==
    /\ ghostCursorInterval # 0
    /\ \E tm \in timers : timers = {tm} /\ tm.id = ghostCursorInterval

\* C33: between handlers the simulator state is coherent: when
\* ghostCursorsEnabled is true the tick timer is armed and the population
\* holds 10 cursors; when it is false no timer is armed and the population
\* is empty.
C33_SimulatorCoherent ==
    IF ghostCursorsEnabled
    THEN tickTimerArmed /\ Len(ghostCursors) = 10
    ELSE timers = {} /\ ghostCursorInterval = 0 /\ Len(ghostCursors) = 0

\* C33 witness: the enabled simulation has ticked twice in a row, the timer
\* re-armed for the next period, with a queued statement beside it
C33_Witness ==
    /\ op.type = "tick"
    /\ op.repeat
    /\ ghostCursorsEnabled
    /\ tickTimerArmed
    /\ Len(ghostCursors) = 10
    /\ \E tm \in timers : tm.due = now + TickPeriod
    /\ Len(allSelectedStatements) > 0

\* C35 as stated, for the first tick of an enabled period: a retarget happens
\* only in a tick at which the derived active id differs from the one at the
\* previous tick of the same enabled period, so the tick that follows the
\* enabling retargets no cursor: lastActiveStatementId and the staggered start
\* times and durations of the fresh cursors stay as they are.
C35_Original ==
    [][(handled("tick") /\ ghostCursorsEnabled /\ op.type = "enableGhostCursors") =>
          /\ lastActiveStatementId' = lastActiveStatementId
          /\ \A i \in DOMAIN ghostCursors :
                /\ ghostCursors'[i].moveStartTime = ghostCursors[i].moveStartTime
                /\ ghostCursors'[i].moveDuration = ghostCursors[i].moveDuration]_vars

\* C34 as stated: every ghost cursor id that has appeared in a broadcast move
\* event is the userId of a broadcast remove event when the cursor is
\* discarded: a handler that runs after a tick and leaves a cursor of the
\* population out of the new population sends a remove event for its id.
C34_Original ==
    [][(now' = now /\ op.type = "tick") =>
          \A i \in DOMAIN ghostCursors :
              (\A j \in DOMAIN ghostCursors' : ghostCursors'[j].id # ghostCursors[i].id) =>
                  \E k \in DOMAIN sent' :
                      /\ sent'[k].msg.type = "remove"
                      /\ sent'[k].msg.position.userId = ghostCursors[i].id]_vars

\* C32 as stated: while the simulation is enabled and ticks run, a timeout of
\* the Canvas that fires drops no ghost cursor.
C32_Original ==
    [][\A c \in Conns :
          (ghostCursorsEnabled /\ canvas'[c].timeouts # canvas[c].timeouts
              /\ canvas'[c].timeouts \subseteq canvas[c].timeouts) =>
                 canvas'[c].cursors = canvas[c].cursors]_vars

\* C39 as stated, for a refresh A by conversationId and a refresh B by json:
\* B was handled last and succeeded while A's fetch, started before B was
\* handled, was still awaited; when A's fetch then succeeds, statementsPool
\* keeps B's statements.
C39_Original ==
    [][(/\ op.type = "updateStatementsPool"
        /\ \E k \in DOMAIN sent : sent[k].msg.type = "statementsPoolUpdated"
        /\ \E i \in DOMAIN fetches, result \in FetchResults :
              result.kind = "array" /\ updateStatementsPoolResumed(i, result)) =>
          statementsPool' = statementsPool]_vars

\* cursor i of the population is in approach (isMoving), or is out of it
inApproach(i) == i \in DOMAIN ghostCursors /\ ghostCursors[i].isMoving
outOfApproach(i) == i \in DOMAIN ghostCursors /\ ~ghostCursors[i].isMoving

\* C38: approach always ends: while the simulation stays enabled and ticks
\* keep running, every ghost cursor with isMoving = true eventually has
\* isMoving = false, and a tick that does not retarget, run at or after
\* moveStartTime + moveDuration of a cursor in approach, takes that cursor
\* out of approach.
C38_ApproachAlwaysEnds ==
    /\ \A i \in 1..GhostCursorCount : inApproach(i) ~> outOfApproach(i)
    /\ [][(handled("tick") /\ ghostCursorsEnabled /\ ~retargets) =>
             \A i \in DOMAIN ghostCursors :
                 (/\ ghostCursors[i].isMoving
                  /\ now >= ghostCursors[i].moveStartTime + ghostCursors[i].moveDuration) =>
                     ~ghostCursors'[i].isMoving]_vars

\* C38 witness: after the retargeting of the whole population, a tick has
\* just taken a cursor out of approach, being the first tick at or after the
\* cursor's moveStartTime + moveDuration with the cursor still 2 units or more
\* from its target
C38_Witness ==
    /\ op.type = "tick"
    /\ now = op.at
    /\ lastActiveStatementId = 5
    /\ \E i \in DOMAIN ghostCursors :
          /\ ~ghostCursors[i].isMoving
          /\ ghostCursors[i].transitionStartTime = now
          /\ now >= ghostCursors[i].moveStartTime + ghostCursors[i].moveDuration
          /\ now - TickPeriod < ghostCursors[i].moveStartTime + ghostCursors[i].moveDuration
          /\ ~nearTarget(ghostCursors[i])

\* C36: queue copies converge: with the messages to a connection delivered
\* in the order they were sent, once every message sent so far has been
\* delivered, the allSelectedStatements of the App behind every open
\* connection equals the server's queue, whatever the interleaving of
\* connects, queueStatement and clearQueue messages of the clients.
C36_QueueCopiesConverge ==
    quiet => \A c \in connections :
                 app[c].allSelectedStatements = allSelectedStatements

\* C36 witness: a clearQueue has been handled, after time 0 and while both
\* connections were open, it left an item in the queue, and with everything
\* delivered both copies are that queue
C36_Witness ==
    /\ quiet
    /\ op.type = "clearQueue"
    /\ op.at > 0
    /\ connections = Conns
    /\ allSelectedStatements # <<>>
    /\ \A c \in Conns : app[c].allSelectedStatements = allSelectedStatements

\* C37 as stated, the App having left every statement at most once: no two
\* POSTs of the App carry the same statementId, and none carries -1.
C37_Original ==
    \A c \in Conns :
        /\ \A i, j \in DOMAIN app[c].posts :
               i # j => app[c].posts[i].statementId # app[c].posts[j].statementId
        /\ \A i \in DOMAIN app[c].posts : app[c].posts[i].statementId # EndVotingId
====
